---- MODULE Spec2Model ----
(***************************************************************************)
(* Multi-agent task assignment and load balancing                          *)
(* (src/src/multi-agent-orchestration.ts, MultiAgentOrchestrationImpl).    *)
(*                                                                         *)
(* The registry is the in-memory array this.agents.  JavaScript runs each  *)
(* handler to its next await without interruption, so every action below   *)
(* is one such synchronous segment: the part of a method up to its         *)
(* `await this.saveAgents()` (which only starts a write and suspends), the *)
(* part of an automatic assignTask after `await this.storage.load(...)`,   *)
(* the completion of a write, and the completion of the constructor's      *)
(* asynchronous loadAgents.  The periodic balancer                         *)
(* (src/src/load-balancer.ts, LoadBalancer) adds the callback of its       *)
(* interval timer.                                                         *)
(***************************************************************************)
EXTENDS Integers, Sequences, FiniteSets, Bags, TLC

VARIABLES
  agents,      \* this.agents: sequence of Agent records
  storage,     \* the value stored under key 'agents': Null (no file) or Some(agents)
  writes,      \* bag of storage.save('agents', snapshot) calls in flight, each
               \* with the kind of call that awaits it
  taskLoads,   \* bag of task ids whose storage.load('task_<id>') is in flight
  loading,     \* TRUE while the constructor's loadAgents() is in flight
  clock,       \* Date.now() at the last call that read it (also the source of
               \* fresh agent ids, with the random suffix)
  added,       \* the patterns addPatterns has appended, per specialization
  event,       \* the operation whose synchronous segment ran last, and its outcome
  balanceInterval,  \* LoadBalancer.balanceInterval: Null or Some(timer handle)
  timers,      \* the interval timers that are set (setInterval, not yet cleared)
  returned,    \* the array a caller holds from getAgents(): Null, or Some(the
               \* agent objects it refers to, as positions in this.agents)
  items,       \* WorkQueue.items: sequence of WorkItem records
  queueFile,   \* the value stored under key 'workQueue': Null or Some(items)
  queueWrites, \* bag of storage.save('workQueue', snapshot) calls in flight
  queueLoading,  \* TRUE while the WorkQueue constructor's loadQueue() is in flight
  itemIds,     \* the number of ids addItem has generated
  handedOut,   \* ids of the items getNextItem has returned and updateItemStatus
               \* has not set back to 'pending' since
  monitored,   \* AgentMonitor.agents: agent id -> Null or Some(AgentStatus)
  heartbeatInterval,  \* AgentMonitor.heartbeatInterval: Null or Some(timer handle)
  runs,        \* the runs of AugmentController.runAgentProcess, per agent id
  metrics      \* PerformanceMetrics.metrics: sequence of PerformanceMetric records

registryVars == <<agents, storage, writes, taskLoads, loading, added,
                  balanceInterval, timers, returned>>
queueVars == <<items, queueFile, queueWrites, queueLoading, itemIds, handedOut>>
monitorVars == <<monitored, heartbeatInterval, runs>>

vars == <<agents, storage, writes, taskLoads, loading, clock, added, event,
          balanceInterval, timers, returned, queueVars, monitorVars, metrics>>

----------------------------------------------------------------------------
(* Bounds of the model *)

MaxAgents == 2     \* agents in the registry of Spec
MaxCap == 2        \* capacities are drawn from 1..MaxCap
MaxWrites == 1     \* storage writes in flight at once
MaxConcurrentWrites == 2  \* the same, where calls overlap (SpecSave, SpecTimer)
RandomRange == 2   \* Math.floor(Math.random() * 1000) is drawn from 0..RandomRange-1
MaxCalls == 2      \* automatic assignTask calls suspended on the task load
MaxStored == 3     \* agents in a stored registry (SpecBalance)
MaxOver == 2       \* a stored agent's load is at most capacity + MaxOver
MaxStoredCap == 3  \* capacities of the stored agents of SpecBalance
MaxReturned == 3     \* entries of the array a caller got from getAgents
MaxRatioCap == 10    \* the larger capacity of the agents of SpecNeeded
MaxRatioAgents == 3  \* agents of SpecNeeded
MaxAdded == 2      \* patterns appended by addPatterns
MaxItems == 3      \* calls of WorkQueue.addItem
MaxRuns == 2       \* agents of an AgentMonitor (started or registered)
MaxTime == 3       \* the clock of SpecMonitor stops here
MaxOperations == 3 \* heartbeats are recorded while an agent's log is shorter
MaxMetrics == 2    \* metrics held by a PerformanceMetrics
MaxTimestamp == 2  \* timestamps of the metrics, and the ends of a time range

----------------------------------------------------------------------------
(* Data *)

\* An optional value (what storage.load resolves to) is a sequence of at
\* most one element: Null for null, Some(v) for the value v.
Null == <<>>
Some(v) == <<v>>

Statuses == {"STARTING", "RUNNING", "COMPLETED", "FAILED", "DISCONNECTED"}

Specializations == {"frontend", "backend", "database", "devops", "general"}

\* The values from which registerAgent and updateAgentStatus draw their inputs.
SpecInputs == {"database", "general"}
StatusInputs == {"RUNNING", "DISCONNECTED"}

Agent(id, spec, cap, load, st) ==
  [id |-> id, specialization |-> spec, capacity |-> cap,
   currentLoad |-> load, status |-> st]

Indices(ags) == 1..Len(ags)

Ev(op, outcome) == [op |-> op, outcome |-> outcome]

----------------------------------------------------------------------------
(* Helpers shared by the handlers.  An agent object is referred to by its  *)
(* position in this.agents: the arrays the code derives from this.agents   *)
(* (copies, filters) hold references to the same objects.                  *)

\* this.agents.find(a => a.id === id): the first match, 0 for undefined
find(ags, id) ==
  IF \E i \in Indices(ags) : ags[i].id = id
  THEN CHOOSE i \in Indices(ags) :
         /\ ags[i].id = id
         /\ \A j \in Indices(ags) : ags[j].id = id => i <= j
  ELSE 0

\* a.currentLoad / a.capacity - b.currentLoad / b.capacity < 0, for positive
\* capacities (the quotients of small integers are compared exactly)
loadPercentageLess(a, b) ==
  a.currentLoad * b.capacity < b.currentLoad * a.capacity

\* Array.prototype.sort(compare) is stable: the element at position p comes
\* after every element that compares less than it and after every earlier
\* element that does not compare greater.
\* The comparison is given as the set of pairs <<a, b>> with compare(a, b) < 0.
sort(s, less) ==
  LET rank(p) == 1 + Cardinality({q \in 1..Len(s) :
                       \/ <<s[q], s[p]>> \in less
                       \/ (<<s[p], s[q]>> \notin less /\ q < p)})
  IN  [r \in 1..Len(s) |-> s[CHOOSE p \in 1..Len(s) : rank(p) = r]]

\* [1, ..., n]
RECURSIVE positions(_)
positions(n) == IF n = 0 THEN <<>> ELSE Append(positions(n - 1), n)

\* s with its first occurrence of x removed (indexOf + splice)
RECURSIVE splice(_, _)
splice(s, x) ==
  IF s = <<>> THEN <<>>
  ELSE IF Head(s) = x THEN Tail(s)
  ELSE <<Head(s)>> \o splice(Tail(s), x)

----------------------------------------------------------------------------
(* findBestAgentForTask: the position of the chosen agent, 0 when the code *)
(* throws `No available agents for specialization ...`.                    *)

\* findBestAgentForTask whose fallback filter forgets the status
findBestAgentAnyStatus(ags, specialization) ==
  LET available(i) ==
        /\ (ags[i].specialization = specialization
              \/ ags[i].specialization = "general")
        /\ ags[i].currentLoad < ags[i].capacity
        /\ ags[i].status = "RUNNING"
      anyAvailable(i) == ags[i].currentLoad < ags[i].capacity
      byLoad(i, j) == loadPercentageLess(ags[i], ags[j])
      byMatchThenLoad(i, j) ==
        IF ags[i].specialization = specialization
             /\ ags[j].specialization # specialization THEN TRUE
        ELSE IF ags[i].specialization # specialization
             /\ ags[j].specialization = specialization THEN FALSE
        ELSE loadPercentageLess(ags[i], ags[j])
      availableAgents == SelectSeq(positions(Len(ags)), available)
      anyAvailableAgents == SelectSeq(positions(Len(ags)), anyAvailable)
  IN  IF availableAgents = <<>>
      THEN IF anyAvailableAgents = <<>> THEN 0
           ELSE sort(anyAvailableAgents,
                     {ij \in (1..Len(ags)) \X (1..Len(ags)) :
                        byLoad(ij[1], ij[2])})[1]
      ELSE sort(availableAgents,
                {ij \in (1..Len(ags)) \X (1..Len(ags)) :
                   byMatchThenLoad(ij[1], ij[2])})[1]

\* findBestAgentForTask that sorts the matching agents by load percentage only
findBestAgentByLoadOnly(ags, specialization) ==
  LET available(i) ==
        /\ (ags[i].specialization = specialization
              \/ ags[i].specialization = "general")
        /\ ags[i].currentLoad < ags[i].capacity
        /\ ags[i].status = "RUNNING"
      anyAvailable(i) ==
        /\ ags[i].currentLoad < ags[i].capacity
        /\ ags[i].status = "RUNNING"
      byLoad(i, j) == loadPercentageLess(ags[i], ags[j])
      availableAgents == SelectSeq(positions(Len(ags)), available)
      anyAvailableAgents == SelectSeq(positions(Len(ags)), anyAvailable)
  IN  IF availableAgents = <<>>
      THEN IF anyAvailableAgents = <<>> THEN 0
           ELSE sort(anyAvailableAgents,
                     {ij \in (1..Len(ags)) \X (1..Len(ags)) :
                        byLoad(ij[1], ij[2])})[1]
      ELSE sort(availableAgents,
                {ij \in (1..Len(ags)) \X (1..Len(ags)) :
                   byLoad(ij[1], ij[2])})[1]

\* findBestAgentForTask whose fallback takes the first agent, unsorted
findBestAgentFallbackUnsorted(ags, specialization) ==
  LET available(i) ==
        /\ (ags[i].specialization = specialization
              \/ ags[i].specialization = "general")
        /\ ags[i].currentLoad < ags[i].capacity
        /\ ags[i].status = "RUNNING"
      anyAvailable(i) ==
        /\ ags[i].currentLoad < ags[i].capacity
        /\ ags[i].status = "RUNNING"
      byLoad(i, j) == loadPercentageLess(ags[i], ags[j])
      byMatchThenLoad(i, j) ==
        IF ags[i].specialization = specialization
             /\ ags[j].specialization # specialization THEN TRUE
        ELSE IF ags[i].specialization # specialization
             /\ ags[j].specialization = specialization THEN FALSE
        ELSE loadPercentageLess(ags[i], ags[j])
      availableAgents == SelectSeq(positions(Len(ags)), available)
      anyAvailableAgents == SelectSeq(positions(Len(ags)), anyAvailable)
  IN  IF availableAgents = <<>>
      THEN IF anyAvailableAgents = <<>> THEN 0
           ELSE anyAvailableAgents[1]
      ELSE sort(availableAgents,
                {ij \in (1..Len(ags)) \X (1..Len(ags)) :
                   byMatchThenLoad(ij[1], ij[2])})[1]

\* findBestAgentForTask without the fallback to the other specializations
findBestAgentNoFallback(ags, specialization) ==
  LET available(i) ==
        /\ (ags[i].specialization = specialization
              \/ ags[i].specialization = "general")
        /\ ags[i].currentLoad < ags[i].capacity
        /\ ags[i].status = "RUNNING"
      anyAvailable(i) ==
        /\ ags[i].currentLoad < ags[i].capacity
        /\ ags[i].status = "RUNNING"
      byLoad(i, j) == loadPercentageLess(ags[i], ags[j])
      byMatchThenLoad(i, j) ==
        IF ags[i].specialization = specialization
             /\ ags[j].specialization # specialization THEN TRUE
        ELSE IF ags[i].specialization # specialization
             /\ ags[j].specialization = specialization THEN FALSE
        ELSE loadPercentageLess(ags[i], ags[j])
      availableAgents == SelectSeq(positions(Len(ags)), available)
  IN  IF availableAgents = <<>> THEN 0
      ELSE sort(availableAgents,
                {ij \in (1..Len(ags)) \X (1..Len(ags)) :
                   byMatchThenLoad(ij[1], ij[2])})[1]

findBestAgentForTask(ags, specialization) ==
  LET available(i) ==
        /\ (ags[i].specialization = specialization
              \/ ags[i].specialization = "general")
        /\ ags[i].currentLoad < ags[i].capacity
        /\ ags[i].status = "RUNNING"
      anyAvailable(i) ==
        /\ ags[i].currentLoad < ags[i].capacity
        /\ ags[i].status = "RUNNING"
      byLoad(i, j) == loadPercentageLess(ags[i], ags[j])
      byMatchThenLoad(i, j) ==
        IF ags[i].specialization = specialization
             /\ ags[j].specialization # specialization THEN TRUE
        ELSE IF ags[i].specialization # specialization
             /\ ags[j].specialization = specialization THEN FALSE
        ELSE loadPercentageLess(ags[i], ags[j])
      availableAgents == SelectSeq(positions(Len(ags)), available)
      anyAvailableAgents == SelectSeq(positions(Len(ags)), anyAvailable)
  IN  IF availableAgents = <<>>
      THEN IF anyAvailableAgents = <<>> THEN 0
           ELSE sort(anyAvailableAgents,
                     {ij \in (1..Len(ags)) \X (1..Len(ags)) :
                        byLoad(ij[1], ij[2])})[1]
      ELSE sort(availableAgents,
                {ij \in (1..Len(ags)) \X (1..Len(ags)) :
                   byMatchThenLoad(ij[1], ij[2])})[1]

----------------------------------------------------------------------------
(* balanceLoad up to its await: the redistribution over this.agents.       *)

\* mostUnderloaded with `<` for `<=`: of the agents with the lowest
\* percentage, the last of the list.
mostUnderloadedLastWins(ags, under) ==
  under[CHOOSE p \in 1..Len(under) :
          /\ \A q \in 1..Len(under) :
               ~loadPercentageLess(ags[under[q]], ags[under[p]])
          /\ \A q \in (p + 1)..Len(under) :
               loadPercentageLess(ags[under[p]], ags[under[q]])]

\* underloadedAgents.reduce((prev, curr) => prev <= curr ? prev : curr) on
\* load percentages: the first agent of the list with the lowest
\* percentage.  The list is not empty.
mostUnderloaded(ags, under) ==
  under[CHOOSE p \in 1..Len(under) :
          /\ \A q \in 1..Len(under) :
               ~loadPercentageLess(ags[under[q]], ags[under[p]])
          /\ \A q \in 1..(p - 1) :
               loadPercentageLess(ags[under[p]], ags[under[q]])]

\* transferLoop that never takes a full target out of the list
RECURSIVE transferLoopKeepsFull(_, _, _, _)
transferLoopKeepsFull(ags, o, under, n) ==
  IF n = 0 THEN [ags |-> ags, under |-> under, threw |-> FALSE]
  ELSE IF under = <<>> THEN [ags |-> ags, under |-> under, threw |-> TRUE]
  ELSE
    LET t == mostUnderloaded(ags, under)
        moved == [ags EXCEPT ![o].currentLoad = @ - 1,
                             ![t].currentLoad = @ + 1]
    IN  transferLoopKeepsFull(moved, o, under, n - 1)

\* transferLoop that stops one transfer short of the excess
RECURSIVE transferLoopOneShort(_, _, _, _)
transferLoopOneShort(ags, o, under, n) ==
  IF n <= 1 THEN [ags |-> ags, under |-> under, threw |-> FALSE]
  ELSE IF under = <<>> THEN [ags |-> ags, under |-> under, threw |-> TRUE]
  ELSE
    LET t == mostUnderloaded(ags, under)
        moved == [ags EXCEPT ![o].currentLoad = @ - 1,
                             ![t].currentLoad = @ + 1]
    IN  IF moved[t].currentLoad >= moved[t].capacity
        THEN IF splice(under, t) = <<>>
             THEN [ags |-> moved, under |-> <<>>, threw |-> FALSE]
             ELSE transferLoopOneShort(moved, o, splice(under, t), n - 1)
        ELSE transferLoopOneShort(moved, o, under, n - 1)

\* transferLoop whose transfer takes the unit from the overloaded agent and
\* gives it to nobody
RECURSIVE transferLoopDropsUnit(_, _, _, _)
transferLoopDropsUnit(ags, o, under, n) ==
  IF n = 0 THEN [ags |-> ags, under |-> under, threw |-> FALSE]
  ELSE IF under = <<>> THEN [ags |-> ags, under |-> under, threw |-> TRUE]
  ELSE transferLoopDropsUnit([ags EXCEPT ![o].currentLoad = @ - 1], o, under, n - 1)

\* transferLoop that gives up the rest of its iterations after one transfer
\* (as if the loop body awaited and the pass went on in a later segment)
transferLoopYields(ags, o, under, n) ==
  IF n = 0 THEN [ags |-> ags, under |-> under, threw |-> FALSE]
  ELSE IF under = <<>> THEN [ags |-> ags, under |-> under, threw |-> TRUE]
  ELSE
    LET t == mostUnderloaded(ags, under)
        moved == [ags EXCEPT ![o].currentLoad = @ - 1,
                             ![t].currentLoad = @ + 1]
    IN  [ags |-> moved,
         under |-> IF moved[t].currentLoad >= moved[t].capacity
                   THEN splice(under, t) ELSE under,
         threw |-> FALSE]

\* The inner loop `for (i = 0; i < excessLoad; i++)` for the overloaded
\* agent o, with n iterations to go.  reduce() of an empty array without an
\* initial value throws a TypeError, which leaves balanceLoad at once.
RECURSIVE transferLoop(_, _, _, _)
transferLoop(ags, o, under, n) ==
  IF n = 0 THEN [ags |-> ags, under |-> under, threw |-> FALSE]
  ELSE IF under = <<>> THEN [ags |-> ags, under |-> under, threw |-> TRUE]
  ELSE
    LET t == mostUnderloaded(ags, under)
        moved == [ags EXCEPT ![o].currentLoad = @ - 1,
                             ![t].currentLoad = @ + 1]
    IN  IF moved[t].currentLoad >= moved[t].capacity
        THEN IF splice(under, t) = <<>>
             THEN [ags |-> moved, under |-> <<>>, threw |-> FALSE]   \* break
             ELSE transferLoop(moved, o, splice(under, t), n - 1)
        ELSE transferLoop(moved, o, under, n - 1)

\* overloadedLoop that leaves the loop after the first overloaded agent
overloadedLoopFirstOnly(ags, over, under) ==
  IF over = <<>> THEN [ags |-> ags, threw |-> FALSE]
  ELSE
    LET o == Head(over)
        excessLoad == ags[o].currentLoad - ags[o].capacity
        r == transferLoop(ags, o, under, excessLoad)
    IN  [ags |-> r.ags, threw |-> r.threw]

\* The outer loop `for (const overloadedAgent of overloadedAgents)`.
RECURSIVE overloadedLoop(_, _, _)
overloadedLoop(ags, over, under) ==
  IF over = <<>> THEN [ags |-> ags, threw |-> FALSE]
  ELSE
    LET o == Head(over)
        excessLoad == ags[o].currentLoad - ags[o].capacity
        r == transferLoop(ags, o, under, excessLoad)
    IN  IF r.threw THEN [ags |-> r.ags, threw |-> TRUE]
        ELSE overloadedLoop(r.ags, Tail(over), r.under)

\* balancePass that takes agents at capacity for overloaded (`>=` for `>`)
balancePassAtCapacity(ags) ==
  LET byLoad(i, j) == loadPercentageLess(ags[i], ags[j])
      sortedAgents == sort(positions(Len(ags)),
                          {ij \in (1..Len(ags)) \X (1..Len(ags)) :
                             byLoad(ij[1], ij[2])})
      overloaded(i) == ags[i].currentLoad >= ags[i].capacity
      underloaded(i) == ags[i].currentLoad < ags[i].capacity
      overloadedAgents == SelectSeq(sortedAgents, overloaded)
      underloadedAgents == SelectSeq(sortedAgents, underloaded)
      r == [ags |-> [ags EXCEPT ![overloadedAgents[1]].currentLoad = @ - 1,
                                ![underloadedAgents[1]].currentLoad = @ + 1],
            threw |-> FALSE]
  IN  IF overloadedAgents = <<>> THEN [ags |-> ags, outcome |-> "noop"]
      ELSE IF underloadedAgents = <<>>
           THEN [ags |-> ags, outcome |-> "cannotBalance"]
      ELSE [ags |-> r.ags, outcome |-> "balanced"]

\* balancePass without the test for an empty underloaded list
balancePassNoUnderloadedTest(ags) ==
  LET byLoad(i, j) == loadPercentageLess(ags[i], ags[j])
      sortedAgents == sort(positions(Len(ags)),
                          {ij \in (1..Len(ags)) \X (1..Len(ags)) :
                             byLoad(ij[1], ij[2])})
      overloaded(i) == ags[i].currentLoad > ags[i].capacity
      underloaded(i) == ags[i].currentLoad < ags[i].capacity
      overloadedAgents == SelectSeq(sortedAgents, overloaded)
      underloadedAgents == SelectSeq(sortedAgents, underloaded)
      r == overloadedLoop(ags, overloadedAgents, underloadedAgents)
  IN  IF overloadedAgents = <<>> THEN [ags |-> ags, outcome |-> "noop"]
      ELSE [ags |-> r.ags,
            outcome |-> IF r.threw THEN "TypeError" ELSE "balanced"]

\* The whole synchronous part of balanceLoad: the agents it leaves and how
\* it ends ("noop": nothing overloaded; "cannotBalance": the warning;
\* "balanced": reaches saveAgents; "TypeError": throws inside the loops).
balancePass(ags) ==
  LET byLoad(i, j) == loadPercentageLess(ags[i], ags[j])
      sortedAgents == sort(positions(Len(ags)),
                          {ij \in (1..Len(ags)) \X (1..Len(ags)) :
                             byLoad(ij[1], ij[2])})
      overloaded(i) == ags[i].currentLoad > ags[i].capacity
      underloaded(i) == ags[i].currentLoad < ags[i].capacity
      overloadedAgents == SelectSeq(sortedAgents, overloaded)
      underloadedAgents == SelectSeq(sortedAgents, underloaded)
      r == overloadedLoop(ags, overloadedAgents, underloadedAgents)
  IN  IF overloadedAgents = <<>> THEN [ags |-> ags, outcome |-> "noop"]
      ELSE IF underloadedAgents = <<>>
           THEN [ags |-> ags, outcome |-> "cannotBalance"]
      ELSE [ags |-> r.ags,
            outcome |-> IF r.threw THEN "TypeError" ELSE "balanced"]

----------------------------------------------------------------------------
(* Strings are sequences of one-character strings, so that toLowerCase,    *)
(* includes, endsWith, startsWith, substring and the file-name regular     *)
(* expression are computed character by character.                         *)

LowerLetters ==
  {"a", "b", "c", "d", "e", "f", "g", "h", "i", "j", "k", "l", "m", "n",
   "o", "p", "q", "r", "s", "t", "u", "v", "w", "x", "y", "z"}

UpperToLower ==
  [c \in {"A", "B", "C", "D", "E", "F", "G", "H", "I", "J", "K", "L", "M",
          "N", "O", "P", "Q", "R", "S", "T", "U", "V", "W", "X", "Y", "Z"} |->
     CASE c = "A" -> "a" [] c = "B" -> "b" [] c = "C" -> "c" [] c = "D" -> "d"
       [] c = "E" -> "e" [] c = "F" -> "f" [] c = "G" -> "g" [] c = "H" -> "h"
       [] c = "I" -> "i" [] c = "J" -> "j" [] c = "K" -> "k" [] c = "L" -> "l"
       [] c = "M" -> "m" [] c = "N" -> "n" [] c = "O" -> "o" [] c = "P" -> "p"
       [] c = "Q" -> "q" [] c = "R" -> "r" [] c = "S" -> "s" [] c = "T" -> "t"
       [] c = "U" -> "u" [] c = "V" -> "v" [] c = "W" -> "w" [] c = "X" -> "x"
       [] c = "Y" -> "y" [] c = "Z" -> "z"]

DigitChars == {"0", "1", "2", "3", "4", "5", "6", "7", "8", "9"}

toLowerCase(s) ==
  [k \in 1..Len(s) |->
     IF s[k] \in DOMAIN UpperToLower THEN UpperToLower[s[k]] ELSE s[k]]

\* s.includes(p)
includes(s, p) ==
  \E k \in 0..(Len(s) - Len(p)) : SubSeq(s, k + 1, k + Len(p)) = p

\* s.endsWith(p)
endsWith(s, p) ==
  /\ Len(p) <= Len(s)
  /\ SubSeq(s, Len(s) - Len(p) + 1, Len(s)) = p

\* pattern.startsWith('*.')
isExtensionPattern(p) == Len(p) >= 2 /\ p[1] = "*" /\ p[2] = "."

----------------------------------------------------------------------------
(* AgentSpecializationManager (src/src/agent-specialization.ts)            *)

\* The order in which the Map `scores` (and `specializations`) is iterated.
SpecializationOrder == <<"frontend", "backend", "database", "devops", "general">>

\* The pattern table the constructor builds; 'general' has no entry.
DefaultPatterns ==
  [sp \in Specializations |->
     CASE sp = "frontend" -> <<
            <<"*", ".", "h", "t", "m", "l">>,
            <<"*", ".", "c", "s", "s">>,
            <<"*", ".", "s", "c", "s", "s">>,
            <<"*", ".", "j", "s">>,
            <<"*", ".", "j", "s", "x">>,
            <<"*", ".", "t", "s">>,
            <<"*", ".", "t", "s", "x">>,
            <<"r", "e", "a", "c", "t">>,
            <<"v", "u", "e">>,
            <<"a", "n", "g", "u", "l", "a", "r">>,
            <<"s", "v", "e", "l", "t", "e">>,
            <<"w", "e", "b", "p", "a", "c", "k">>,
            <<"b", "a", "b", "e", "l">>,
            <<"e", "s", "l", "i", "n", "t">>,
            <<"u", "i">>,
            <<"u", "x">>,
            <<"r", "e", "s", "p", "o", "n", "s", "i", "v", "e">>,
            <<"m", "o", "b", "i", "l", "e">>,
            <<"d", "e", "s", "k", "t", "o", "p">>,
            <<"w", "e", "b">> >>
       [] sp = "backend" -> <<
            <<"*", ".", "j", "s">>,
            <<"*", ".", "t", "s">>,
            <<"*", ".", "p", "y">>,
            <<"*", ".", "j", "a", "v", "a">>,
            <<"*", ".", "g", "o">>,
            <<"*", ".", "r", "b">>,
            <<"*", ".", "p", "h", "p">>,
            <<"*", ".", "c", "s">>,
            <<"a", "p", "i">>,
            <<"r", "e", "s", "t">>,
            <<"g", "r", "a", "p", "h", "q", "l">>,
            <<"s", "e", "r", "v", "e", "r">>,
            <<"e", "n", "d", "p", "o", "i", "n", "t">>,
            <<"c", "o", "n", "t", "r", "o", "l", "l", "e", "r">>,
            <<"m", "i", "d", "d", "l", "e", "w", "a", "r", "e">>,
            <<"a", "u", "t", "h", "e", "n", "t", "i", "c", "a", "t", "i", "o", "n">>,
            <<"a", "u", "t", "h", "o", "r", "i", "z", "a", "t", "i", "o", "n">>,
            <<"s", "e", "c", "u", "r", "i", "t", "y">> >>
       [] sp = "database" -> <<
            <<"*", ".", "s", "q", "l">>,
            <<"*", ".", "p", "r", "i", "s", "m", "a">>,
            <<"*", ".", "s", "c", "h", "e", "m", "a">>,
            <<"m", "i", "g", "r", "a", "t", "i", "o", "n">>,
            <<"d", "a", "t", "a", "b", "a", "s", "e">>,
            <<"d", "b">>,
            <<"s", "q", "l">>,
            <<"n", "o", "s", "q", "l">>,
            <<"m", "o", "n", "g", "o", "d", "b">>,
            <<"p", "o", "s", "t", "g", "r", "e", "s">>,
            <<"m", "y", "s", "q", "l">>,
            <<"q", "u", "e", "r", "y">>,
            <<"i", "n", "d", "e", "x">>,
            <<"t", "r", "a", "n", "s", "a", "c", "t", "i", "o", "n">>,
            <<"o", "r", "m">>,
            <<"e", "n", "t", "i", "t", "y">>,
            <<"m", "o", "d", "e", "l">> >>
       [] sp = "devops" -> <<
            <<"D", "o", "c", "k", "e", "r", "f", "i", "l", "e">>,
            <<"d", "o", "c", "k", "e", "r", "-", "c", "o", "m", "p", "o", "s", "e", ".", "y", "m", "l">>,
            <<"*", ".", "y", "a", "m", "l">>,
            <<"*", ".", "y", "m", "l">>,
            <<"k", "u", "b", "e", "r", "n", "e", "t", "e", "s">>,
            <<"k", "8", "s">>,
            <<"h", "e", "l", "m">>,
            <<"t", "e", "r", "r", "a", "f", "o", "r", "m">>,
            <<"a", "n", "s", "i", "b", "l", "e">>,
            <<"c", "i">>,
            <<"c", "d">>,
            <<"p", "i", "p", "e", "l", "i", "n", "e">>,
            <<"d", "e", "p", "l", "o", "y">>,
            <<"b", "u", "i", "l", "d">>,
            <<"t", "e", "s", "t">>,
            <<"m", "o", "n", "i", "t", "o", "r", "i", "n", "g">>,
            <<"l", "o", "g", "g", "i", "n", "g">>,
            <<"m", "e", "t", "r", "i", "c", "s">>,
            <<"a", "l", "e", "r", "t">> >>
       [] sp = "general" -> << >>]

\* Number of patterns of `patterns` (from position k on) that the lower-cased
\* description contains: scoreDescription tests every pattern, lower-cased.
RECURSIVE descriptionHits(_, _, _)
descriptionHits(lowerDescription, patterns, k) ==
  IF k > Len(patterns) THEN 0
  ELSE (IF includes(lowerDescription, toLowerCase(patterns[k])) THEN 1 ELSE 0)
         + descriptionHits(lowerDescription, patterns, k + 1)

\* fileHits that gives an extension pattern one point, like any other
RECURSIVE fileHitsUnweighted(_, _, _)
fileHitsUnweighted(lowerFile, patterns, k) ==
  IF k > Len(patterns) THEN 0
  ELSE (IF isExtensionPattern(patterns[k])
        THEN (IF endsWith(lowerFile, Tail(patterns[k])) THEN 1 ELSE 0)
        ELSE (IF includes(lowerFile, toLowerCase(patterns[k])) THEN 1 ELSE 0))
         + fileHitsUnweighted(lowerFile, patterns, k + 1)

\* Points one file earns from `patterns`: 2 for an extension pattern whose
\* extension (pattern.substring(1), not lower-cased) ends the lower-cased
\* name, 1 for any other pattern the name contains.
RECURSIVE fileHits(_, _, _)
fileHits(lowerFile, patterns, k) ==
  IF k > Len(patterns) THEN 0
  ELSE (IF isExtensionPattern(patterns[k])
        THEN (IF endsWith(lowerFile, Tail(patterns[k])) THEN 2 ELSE 0)
        ELSE (IF includes(lowerFile, toLowerCase(patterns[k])) THEN 1 ELSE 0))
         + fileHits(lowerFile, patterns, k + 1)

RECURSIVE scoreFiles(_, _, _)
scoreFiles(files, patterns, k) ==
  IF k > Len(files) THEN 0
  ELSE fileHits(toLowerCase(files[k]), patterns, 1)
         + scoreFiles(files, patterns, k + 1)

\* scores.get(sp) after scoreDescription and scoreFiles
score(table, sp, description, files) ==
  descriptionHits(toLowerCase(description), table[sp], 1)
    + scoreFiles(files, table[sp], 1)

\* bestSpecialization with `>=` for `>`: the last tag of the highest score
RECURSIVE bestSpecializationLastWins(_, _, _, _, _, _)
bestSpecializationLastWins(table, description, files, k, maxScore, best) ==
  IF k > Len(SpecializationOrder) THEN best
  ELSE LET sp == SpecializationOrder[k]
           sc == score(table, sp, description, files)
       IN  IF sc >= maxScore
           THEN bestSpecializationLastWins(table, description, files, k + 1, sc, sp)
           ELSE bestSpecializationLastWins(table, description, files, k + 1, maxScore, best)

\* The loop over scores.entries(): a later tag wins only with a strictly
\* higher score.
RECURSIVE bestSpecialization(_, _, _, _, _, _)
bestSpecialization(table, description, files, k, maxScore, best) ==
  IF k > Len(SpecializationOrder) THEN best
  ELSE LET sp == SpecializationOrder[k]
           sc == score(table, sp, description, files)
       IN  IF sc > maxScore
           THEN bestSpecialization(table, description, files, k + 1, sc, sp)
           ELSE bestSpecialization(table, description, files, k + 1, maxScore, best)

\* this.specializations: the constructor's table with what addPatterns
\* appended
specializations(extra) ==
  [sp \in Specializations |-> DefaultPatterns[sp] \o extra[sp]]

NoneAdded == [sp \in Specializations |-> <<>>]

determineSpecialization(table, description, files) ==
  bestSpecialization(table, description, files, 1, 0, "general")

\* The descriptions, file lists and addPatterns arguments of the calls made
\* on the AgentSpecializationManager.
Descriptions ==
  {<<>>, <<"a", "p", "i">>, <<"*", ".", "p", "y">>, <<"u", "i", " ", "a", "p", "i">>, <<"m", "i", "s", "c", " ", "t", "o", "o", "l">>}

FileLists ==
  {<<>>, <<<<"s", "c", "h", "e", "m", "a", ".", "s", "q", "l">>>>, <<<<"M", "a", "i", "n", ".", "T", "S">>>>, <<<<"a", "p", "p", ".", "p", "y">>, <<"s", "c", "h", "e", "m", "a", ".", "s", "q", "l">>>>}

AddInputs ==
  {[specialization |-> "general", patterns |-> <<<<"m", "i", "s", "c">>>>],
   [specialization |-> "devops", patterns |-> <<<<"a", "p", "i">>>>],
   [specialization |-> "database", patterns |-> <<<<"*", ".", "S", "Q", "L">>>>]}

\* The number of patterns addPatterns has appended so far.
RECURSIVE addedCount(_, _)
addedCount(extra, k) ==
  IF k > Len(SpecializationOrder) THEN 0
  ELSE Len(extra[SpecializationOrder[k]]) + addedCount(extra, k + 1)

\* addPatterns(specialization, patterns)
addPatterns(specialization, patterns) ==
  /\ addedCount(added, 1) + Len(patterns) <= MaxAdded
  /\ added' = [added EXCEPT ![specialization] = @ \o patterns]
  /\ event' = Ev("addPatterns", "ok")
  /\ UNCHANGED <<agents, storage, writes, taskLoads, loading, clock, balanceInterval, timers, returned, queueVars, monitorVars, metrics>>

\* What a call of determineSpecialization leaves for the properties: the
\* tag it returns, its arguments and the scores at the end of the call.
classified(extra, description, files) ==
  [op |-> "determineSpecialization",
   outcome |-> determineSpecialization(specializations(extra), description, files),
   description |-> description,
   files |-> files,
   scores |-> [sp \in Specializations |->
                 score(specializations(extra), sp, description, files)]]

\* classify that appends the description to the patterns of the tag it returns
classifyLearns(description, files) ==
  /\ event' = classified(added, description, files)
  /\ added' = [added EXCEPT ![event'.outcome] = @ \o <<description>>]
  /\ UNCHANGED <<agents, storage, writes, taskLoads, loading, clock, balanceInterval, timers, returned, queueVars, monitorVars, metrics>>

\* determineSpecialization(description, files): reads the table, builds its
\* own Map of scores.
classify(description, files) ==
  /\ event' = classified(added, description, files)
  /\ UNCHANGED <<agents, storage, writes, taskLoads, loading, clock, added, balanceInterval, timers, returned, queueVars, monitorVars, metrics>>

----------------------------------------------------------------------------
(* determineTaskSpecialization: the file names are the matches of          *)
(* /\b[\w-]+\.[a-z]{2,4}\b/g in the lower-cased description.               *)

isWordChar(c) == c \in LowerLetters \cup DOMAIN UpperToLower \cup DigitChars \cup {"_"}

wordAt(s, k) == k >= 1 /\ k <= Len(s) /\ isWordChar(s[k])

\* \b between positions k and k + 1
wordBoundary(s, k) == wordAt(s, k) # wordAt(s, k + 1)

\* [\w-]
nameChar(c) == isWordChar(c) \/ c = "-"

\* The last position of the match that starts at position i, 0 if none
\* starts there.  [\w-]+ can only end where a '.' follows, that is at the
\* end of the run of name characters; [a-z]{2,4} is greedy.
matchFrom(s, i) ==
  LET runEnds == {j \in i..Len(s) :
                    /\ \A k \in i..j : nameChar(s[k])
                    /\ j + 1 <= Len(s) /\ s[j + 1] = "."}
      extensionEnds(j) == {e \in (j + 3)..(j + 5) :
                    /\ e <= Len(s)
                    /\ \A k \in (j + 2)..e : s[k] \in LowerLetters
                    /\ wordBoundary(s, e)}
      ends == UNION {extensionEnds(j) : j \in runEnds}
  IN  IF wordBoundary(s, i - 1) /\ ends # {}
      THEN CHOOSE e \in ends : \A f \in ends : f <= e
      ELSE 0

\* String.prototype.match with the g flag: leftmost matches, not overlapping
RECURSIVE fileMatches(_, _)
fileMatches(s, i) ==
  IF i > Len(s) THEN <<>>
  ELSE IF matchFrom(s, i) > 0
       THEN <<SubSeq(s, i, matchFrom(s, i))>> \o fileMatches(s, matchFrom(s, i) + 1)
       ELSE fileMatches(s, i + 1)

determineTaskSpecialization(table, task) ==
  determineSpecialization(table, task.description,
                          fileMatches(toLowerCase(task.description), 1))

----------------------------------------------------------------------------
(* The Task Store: what storage.load('task_<id>') returns.                 *)

TaskIds == {"t1", "t2", "t3"}

\* "t3" has no file: load returns null.
TaskStore ==
  [t \in TaskIds |->
     CASE t = "t1" -> Some([description |-> <<"F", "i", "x", " ", "s", "c", "h", "e", "m", "a", ".", "s", "q", "l">>])
       [] t = "t2" -> Some([description |-> <<"a", "d", "d", " ", "a", "p", "i">>])
       [] t = "t3" -> Null]

----------------------------------------------------------------------------
(* Persistence.  saveAgents() hands this.agents to storage.save, which     *)
(* serialises it at once (JSON.stringify in the call) and writes the file  *)
(* later; saveAgents catches and logs a failed write.                      *)

\* At most n writes are in flight after the step (the bound of a specification).
writesWithin(n) == BagCardinality(writes') <= n

\* `caller` is the kind of call that awaits the write: "api" for a call of a
\* method from outside, "timer" for a callback of the balancer's timer.
saveAgents(ags, caller) ==
  writes (+) SetToBag({[data |-> ags, caller |-> caller]})

\* A write in flight reaches the file.
saveDone ==
  \E w \in BagToSet(writes) :
    /\ writes' = writes (-) SetToBag({w})
    /\ storage' = Some(w.data)
    /\ event' = Ev("save", "ok")
    /\ UNCHANGED <<agents, taskLoads, loading, clock, added, balanceInterval, timers, returned, queueVars, monitorVars, metrics>>

\* saveFailed that puts the registry back to what the file holds
saveFailedRollsBack ==
  \E w \in BagToSet(writes) :
    /\ writes' = writes (-) SetToBag({w})
    /\ agents' = IF storage # Null THEN storage[1] ELSE <<>>
    /\ event' = Ev("saveFailed", "returns")
    /\ UNCHANGED <<storage, taskLoads, loading, clock, added, balanceInterval, timers, returned, queueVars, monitorVars, metrics>>

\* A write in flight fails: FileStorageProvider.save rethrows, saveAgents
\* catches the error and logs 'Failed to save agents', and the call that
\* awaits saveAgents goes on to its return.
saveFailed ==
  \E w \in BagToSet(writes) :
    /\ writes' = writes (-) SetToBag({w})
    /\ event' = Ev("saveFailed", "returns")
    /\ UNCHANGED <<agents, storage, taskLoads, loading, clock, added, balanceInterval, timers, returned, queueVars, monitorVars, metrics>>

\* The constructor's loadAgents() resumes after `await this.storage.load`:
\* a stored value replaces this.agents.
loadAgents ==
  /\ loading
  /\ loading' = FALSE
  /\ agents' = IF storage # Null THEN storage[1] ELSE agents
  /\ event' = Ev("loadAgents", "ok")
  /\ UNCHANGED <<storage, writes, taskLoads, clock, added, balanceInterval, timers, returned, queueVars, monitorVars, metrics>>

----------------------------------------------------------------------------
(* The operations of MultiAgentOrchestrationImpl                           *)

\* getAgent(id): returns the agent or throws; changes nothing.
getAgent(id) ==
  /\ event' = Ev("getAgent", IF find(agents, id) = 0 THEN "NotFound" ELSE "ok")
  /\ UNCHANGED <<agents, storage, writes, taskLoads, loading, clock, added, balanceInterval, timers, returned, queueVars, monitorVars, metrics>>

\* `agent-${Date.now()}-${Math.floor(Math.random() * 1000)}`: one id for
\* every pair of a time and a random number.
generateId(now, random) == now * RandomRange + random

\* registerAgent(name, specialization, capacity), called `elapsed`
\* milliseconds after the previous call of registerAgent (clock is the
\* Date.now() of that call), with Math.random() giving `random`.
registerAgent(specialization, capacity, elapsed, random) ==
  /\ Len(agents) < MaxAgents
  /\ clock' = clock + elapsed
  /\ agents' = Append(agents, Agent(generateId(clock', random), specialization,
                                     capacity, 0, "STARTING"))
  /\ writes' = saveAgents(agents', "api")
  /\ event' = Ev("registerAgent", "ok")
  /\ UNCHANGED <<storage, taskLoads, loading, added, balanceInterval, timers, returned, queueVars, monitorVars, metrics>>

\* assignExplicit with `>` for `>=` in the capacity test
assignExplicitOffByOne(ags, agentId) ==
  LET i == find(ags, agentId)
  IN  IF i = 0 THEN [ags |-> ags, outcome |-> "NotFound"]
      ELSE IF ags[i].currentLoad > ags[i].capacity
           THEN [ags |-> ags, outcome |-> "CapacityExceeded"]
      ELSE [ags |-> [ags EXCEPT ![i].currentLoad = @ + 1], outcome |-> "ok"]

\* assignExplicit that raises the load before it tests the capacity
assignExplicitIncrementFirst(ags, agentId) ==
  LET i == find(ags, agentId)
  IN  IF i = 0 THEN [ags |-> ags, outcome |-> "NotFound"]
      ELSE IF ags[i].currentLoad >= ags[i].capacity
           THEN [ags |-> [ags EXCEPT ![i].currentLoad = @ + 1],
                 outcome |-> "CapacityExceeded"]
      ELSE [ags |-> [ags EXCEPT ![i].currentLoad = @ + 1], outcome |-> "ok"]

\* What assignTask(taskId, agentId) does to the agents, and how it ends.
assignExplicit(ags, agentId) ==
  LET i == find(ags, agentId)
  IN  IF i = 0 THEN [ags |-> ags, outcome |-> "NotFound"]
      ELSE IF ags[i].currentLoad >= ags[i].capacity
           THEN [ags |-> ags, outcome |-> "CapacityExceeded"]
      ELSE [ags |-> [ags EXCEPT ![i].currentLoad = @ + 1], outcome |-> "ok"]

\* assignTask(taskId, agentId) with an agent id: runs to saveAgents at once.
assignTask(agentId) ==
  LET r == assignExplicit(agents, agentId)
  IN  /\ agents' = r.ags
      /\ writes' = IF r.outcome = "ok" THEN saveAgents(agents', "api") ELSE writes
      /\ event' = Ev("assignTask", r.outcome)
      /\ UNCHANGED <<storage, taskLoads, loading, clock, added, balanceInterval, timers, returned, queueVars, monitorVars, metrics>>

\* assignTask(taskId) without an agent id suspends on the task load.
assignTaskStart(taskId) ==
  /\ BagCardinality(taskLoads) < MaxCalls
  /\ taskLoads' = taskLoads (+) SetToBag({taskId})
  /\ event' = Ev("assignTaskStart", "pending")
  /\ UNCHANGED <<agents, storage, writes, loading, clock, added, balanceInterval, timers, returned, queueVars, monitorVars, metrics>>

\* The specialization of every stored task under the constructor's table
\* (evaluated once).
DefaultTaskSpecialization ==
  [t \in {u \in TaskIds : TaskStore[u] # Null} |->
     determineTaskSpecialization(DefaultPatterns, TaskStore[t][1])]

\* this.determineTaskSpecialization(task) for the stored task taskId
taskSpecialization(extra, taskId) ==
  IF extra = NoneAdded THEN DefaultTaskSpecialization[taskId]
  ELSE determineTaskSpecialization(specializations(extra), TaskStore[taskId][1])

\* assignAuto that takes a missing task for a task without specialization
assignAutoIgnoresMissingTask(ags, extra, taskId) ==
  LET i == findBestAgentForTask(ags, IF TaskStore[taskId] = Null THEN "general"
                                     ELSE taskSpecialization(extra, taskId))
  IN  IF i = 0
      THEN [ags |-> ags, outcome |-> "NoAvailableAgent", chosen |-> 0]
      ELSE [ags |-> [ags EXCEPT ![i].currentLoad = @ + 1],
            outcome |-> "ok", chosen |-> ags[i].id]

\* What the rest of an automatic assignTask does once the task load has
\* returned: `chosen` is the id of the selected agent (0 if none).
assignAuto(ags, extra, taskId) ==
  IF TaskStore[taskId] = Null
  THEN [ags |-> ags, outcome |-> "TaskNotFound", chosen |-> 0]
  ELSE LET i == findBestAgentForTask(ags, taskSpecialization(extra, taskId))
       IN  IF i = 0
           THEN [ags |-> ags, outcome |-> "NoAvailableAgent", chosen |-> 0]
           ELSE [ags |-> [ags EXCEPT ![i].currentLoad = @ + 1],
                 outcome |-> "ok", chosen |-> ags[i].id]

\* The task load of an automatic assignTask returns; selection and
\* increment run without interruption up to saveAgents.
assignTaskResume(taskId) ==
  LET r == assignAuto(agents, added, taskId)
  IN  /\ taskId \in BagToSet(taskLoads)
      /\ taskLoads' = taskLoads (-) SetToBag({taskId})
      /\ agents' = r.ags
      /\ writes' = IF r.outcome = "ok" THEN saveAgents(agents', "api") ELSE writes
      /\ event' = [op |-> "assignTaskAuto", outcome |-> r.outcome,
                   taskId |-> taskId]
      /\ UNCHANGED <<storage, loading, clock, added, balanceInterval, timers, returned, queueVars, monitorVars, metrics>>

\* complete without the `currentLoad > 0` guard
completeUnguarded(ags, agentId) ==
  LET i == find(ags, agentId)
  IN  IF i = 0 THEN [ags |-> ags, outcome |-> "NotFound"]
      ELSE [ags |-> [ags EXCEPT ![i].currentLoad = @ - 1], outcome |-> "ok"]

\* What completeTask(agentId, taskId) does to the agents.
complete(ags, agentId) ==
  LET i == find(ags, agentId)
  IN  IF i = 0 THEN [ags |-> ags, outcome |-> "NotFound"]
      ELSE [ags |-> IF ags[i].currentLoad > 0
                    THEN [ags EXCEPT ![i].currentLoad = @ - 1]
                    ELSE ags,
            outcome |-> "ok"]

completeTask(agentId) ==
  LET r == complete(agents, agentId)
  IN  /\ agents' = r.ags
      /\ writes' = IF r.outcome = "ok" THEN saveAgents(agents', "api") ELSE writes
      /\ event' = Ev("completeTask", r.outcome)
      /\ UNCHANGED <<storage, taskLoads, loading, clock, added, balanceInterval, timers, returned, queueVars, monitorVars, metrics>>

\* What updateAgentStatus(id, status) does to the agents.
\* As setStatus, but an agent that leaves RUNNING gives up its load.
setStatusDropsLoad(ags, id, status) ==
  LET i == find(ags, id)
  IN  IF i = 0 THEN [ags |-> ags, outcome |-> "NotFound"]
      ELSE [ags |-> [ags EXCEPT ![i].status = status,
                                ![i].currentLoad = IF status = "RUNNING" THEN @ ELSE 0],
            outcome |-> "ok"]

setStatus(ags, id, status) ==
  LET i == find(ags, id)
  IN  IF i = 0 THEN [ags |-> ags, outcome |-> "NotFound"]
      ELSE [ags |-> [ags EXCEPT ![i].status = status], outcome |-> "ok"]

updateAgentStatus(id, status) ==
  LET r == setStatus(agents, id, status)
  IN  /\ agents' = r.ags
      /\ writes' = IF r.outcome = "ok" THEN saveAgents(agents', "api") ELSE writes
      /\ event' = Ev("updateAgentStatus", r.outcome)
      /\ UNCHANGED <<storage, taskLoads, loading, clock, added, balanceInterval, timers, returned, queueVars, monitorVars, metrics>>

\* balanceLoad(): saveAgents is reached only when the loops finish.
balanceLoad ==
  LET r == balancePass(agents)
  IN  /\ agents' = r.ags
      /\ writes' = IF r.outcome = "balanced" THEN saveAgents(agents', "api") ELSE writes
      /\ event' = Ev("balanceLoad", r.outcome)
      /\ UNCHANGED <<storage, taskLoads, loading, clock, added, balanceInterval, timers, returned, queueVars, monitorVars, metrics>>

----------------------------------------------------------------------------
(* The periodic balancer (src/src/load-balancer.ts)                        *)

\* setInterval returns a timer that is none of the timers that are set.
newTimer == CHOOSE h \in 1..(Cardinality(timers) + 1) : h \notin timers

\* startAutoBalancing(intervalMs): clears the timer it holds and sets one.
startAutoBalancing ==
  /\ timers' = (timers \ {balanceInterval[i] : i \in DOMAIN balanceInterval})
                  \cup {newTimer}
  /\ balanceInterval' = Some(newTimer)
  /\ event' = Ev("startAutoBalancing", "ok")
  /\ UNCHANGED <<agents, storage, writes, taskLoads, loading, clock, added, returned, queueVars, monitorVars, metrics>>

\* stopAutoBalancing that forgets the timer without clearing it
stopWithoutClear ==
  /\ timers' = timers
  /\ balanceInterval' = Null
  /\ event' = Ev("stopAutoBalancing", "ok")
  /\ UNCHANGED <<agents, storage, writes, taskLoads, loading, clock, added, returned, queueVars, monitorVars, metrics>>

\* stopAutoBalancing(): clears the timer it holds, if any.
stopAutoBalancing ==
  /\ timers' = timers \ {balanceInterval[i] : i \in DOMAIN balanceInterval}
  /\ balanceInterval' = Null
  /\ event' = Ev("stopAutoBalancing", "ok")
  /\ UNCHANGED <<agents, storage, writes, taskLoads, loading, clock, added, returned, queueVars, monitorVars, metrics>>

\* The interval of timer h elapses: the callback calls this.balanceLoad(),
\* which runs orchestration.balanceLoad() up to its await of saveAgents.
\* The callback catches and logs what balanceLoad throws.
timerTick(h) ==
  LET r == balancePass(agents)
  IN  /\ h \in timers
      /\ agents' = r.ags
      /\ writes' = IF r.outcome = "balanced" THEN saveAgents(agents', "timer") ELSE writes
      /\ event' = Ev("timerTick", r.outcome)
      /\ UNCHANGED <<storage, taskLoads, loading, clock, added, balanceInterval, timers, returned, queueVars, monitorVars, metrics>>

\* The rebalance passes started by the timer that have not returned: those
\* that wait for their write.
passesInFlight ==
  LET timerWrites == {w \in BagToSet(writes) : w.caller = "timer"}
      RECURSIVE count(_)
      count(s) == IF s = {} THEN 0
                  ELSE LET w == CHOOSE x \in s : TRUE
                       IN  CopiesIn(w, writes) + count(s \ {w})
  IN  count(timerWrites)

----------------------------------------------------------------------------
(* The reads of LoadBalancer.  Both take orchestration.getAgents() and     *)
(* read the agents in one synchronous run; neither writes a field.         *)

\* agents.filter(a => a.status === 'RUNNING').map(a => a.currentLoad /
\* a.capacity): every quotient as the pair <<currentLoad, capacity>>.
RECURSIVE loadPercentagesAnyStatus(_)
loadPercentagesAnyStatus(ags) ==
  IF ags = <<>> THEN <<>>
  ELSE << <<Head(ags).currentLoad, Head(ags).capacity>> >>
         \o loadPercentagesAnyStatus(Tail(ags))

RECURSIVE loadPercentages(_)
loadPercentages(ags) ==
  IF ags = <<>> THEN <<>>
  ELSE (IF Head(ags).status = "RUNNING"
        THEN << <<Head(ags).currentLoad, Head(ags).capacity>> >>
        ELSE <<>>) \o loadPercentages(Tail(ags))

\* A common denominator of the quotients: the product of the capacities.
RECURSIVE denominator(_)
denominator(ratios) ==
  IF ratios = <<>> THEN 1 ELSE Head(ratios)[2] * denominator(Tail(ratios))

\* loadPercentages.reduce((sum, val) => sum + val, 0), in units of 1/d.
RECURSIVE sumOfRatios(_, _)
sumOfRatios(ratios, d) ==
  IF ratios = <<>> THEN 0
  ELSE Head(ratios)[1] * (d \div Head(ratios)[2]) + sumOfRatios(Tail(ratios), d)

\* loadPercentages.reduce((sum, val) => sum + Math.pow(val - mean, 2), 0)
\* for mean = s / (n * d), in units of 1 / (n * d)^2.
RECURSIVE sumOfSquares(_, _, _, _)
sumOfSquares(ratios, d, n, s) ==
  IF ratios = <<>> THEN 0
  ELSE LET dev == n * Head(ratios)[1] * (d \div Head(ratios)[2]) - s
       IN  dev * dev + sumOfSquares(Tail(ratios), d, n, s)

\* Math.sqrt(variance) > 0.2 for variance = squares / (n * (n * d)^2): the
\* same as variance > 1/25.  The quotients of the loads and capacities up
\* to 10 give the same answer in double arithmetic as in exact arithmetic,
\* the quotients with a deviation of exactly 0.2 included.
stdDevExceeds(ratios) ==
  LET n == Len(ratios)
      d == denominator(ratios)
      squares == sumOfSquares(ratios, d, n, sumOfRatios(ratios, d))
  IN  25 * squares > n * n * n * d * d

\* As needsBalancing, without the filter on the status.
needsBalancingAnyStatus(ags) ==
  IF \E i \in Indices(ags) : ags[i].currentLoad > ags[i].capacity THEN TRUE
  ELSE IF Len(loadPercentagesAnyStatus(ags)) <= 1 THEN FALSE
  ELSE stdDevExceeds(loadPercentagesAnyStatus(ags))

\* The value isLoadBalancingNeeded() returns over the agents ags.
needsBalancing(ags) ==
  IF \E i \in Indices(ags) : ags[i].currentLoad > ags[i].capacity THEN TRUE
  ELSE IF Len(loadPercentages(ags)) <= 1 THEN FALSE
  ELSE stdDevExceeds(loadPercentages(ags))

isLoadBalancingNeeded ==
  /\ event' = [op |-> "isLoadBalancingNeeded", outcome |-> "ok",
               needed |-> needsBalancing(agents)]
  /\ UNCHANGED <<agents, storage, writes, taskLoads, loading, clock, added, balanceInterval, timers, returned, queueVars, monitorVars, metrics>>

\* agentLoads.sort((a, b) => b.loadPercentage - a.loadPercentage): the pairs
\* <<a, b>> for which the comparison is negative.
higherLoadPercentage(ags) ==
  {ab \in {ags[i] : i \in Indices(ags)} \X {ags[i] : i \in Indices(ags)} :
     loadPercentageLess(ab[2], ab[1])}

RECURSIVE reduceSum(_, _)
reduceSum(ags, field) ==
  IF ags = <<>> THEN 0 ELSE Head(ags)[field] + reduceSum(Tail(ags), field)

\* The object getLoadDistribution() returns: the totals, and the agents by
\* load percentage, highest first (their ids and loads are kept here).
loadDistribution(ags) ==
  LET sorted == sort(ags, higherLoadPercentage(ags))
  IN  [totalCapacity |-> reduceSum(ags, "capacity"),
       totalLoad |-> reduceSum(ags, "currentLoad"),
       agents |-> [k \in Indices(sorted) |->
                     [id |-> sorted[k].id, capacity |-> sorted[k].capacity,
                      currentLoad |-> sorted[k].currentLoad]]]

getLoadDistribution ==
  /\ event' = [op |-> "getLoadDistribution", outcome |-> "ok",
               distribution |-> loadDistribution(agents)]
  /\ UNCHANGED <<agents, storage, writes, taskLoads, loading, clock, added, balanceInterval, timers, returned, queueVars, monitorVars, metrics>>

----------------------------------------------------------------------------
(* getAgents() and what its caller does with the array                     *)

\* return [...this.agents]: a new array that refers to the agent objects of
\* this.agents; the caller keeps the array of its latest call.  No handler removes or reorders the elements of this.agents
\* after loading, so an agent object is named by its position there.
getAgents ==
  /\ returned' = Some([i \in Indices(agents) |-> i])
  /\ event' = Ev("getAgents", "ok")
  /\ UNCHANGED <<agents, storage, writes, taskLoads, loading, clock, added, balanceInterval, timers, queueVars, monitorVars, metrics>>

\* The caller pushes an object of its own (written 0) onto the array.
returnedPush ==
  /\ returned # Null
  /\ Len(returned[1]) < MaxReturned
  /\ returned' = Some(Append(returned[1], 0))
  /\ event' = Ev("returned.push", "ok")
  /\ UNCHANGED <<agents, storage, writes, taskLoads, loading, clock, added, balanceInterval, timers, queueVars, monitorVars, metrics>>

\* The caller pops the last entry of the array.
returnedPop ==
  /\ returned # Null
  /\ returned[1] # <<>>
  /\ returned' = Some(SubSeq(returned[1], 1, Len(returned[1]) - 1))
  /\ event' = Ev("returned.pop", "ok")
  /\ UNCHANGED <<agents, storage, writes, taskLoads, loading, clock, added, balanceInterval, timers, queueVars, monitorVars, metrics>>

\* What the caller reads through the array: the fields of the objects it
\* refers to.
observed(ret, ags) ==
  [k \in 1..Len(ret) |-> IF ret[k] = 0 THEN Null ELSE Some(ags[ret[k]])]

----------------------------------------------------------------------------
(* WorkQueue over a FileStorageProvider.  saveQueue passes this.items to   *)
(* storage.save, which serialises it in the call and writes the file       *)
(* later; every method runs to its `await this.saveQueue()` in one         *)
(* synchronous segment.                                                    *)

ItemStatuses == {"pending", "in-progress", "completed", "failed"}

\* The values from which addItem and updateItemStatus draw their inputs.
PriorityInputs == {"high", "medium", "low"}
ItemStatusInputs == {"pending", "completed"}

priorityValues == [high |-> 3, medium |-> 2, low |-> 1]

WorkItem(id, priority, status, createdAt) ==
  [id |-> id, priority |-> priority, status |-> status, createdAt |-> createdAt]

\* The comparison of getNextItem's sort that looks at the age only.
itemBeforeByAgeOnly(a, b) ==
  IF a.status # "pending" /\ b.status = "pending" THEN FALSE
  ELSE IF a.status = "pending" /\ b.status # "pending" THEN TRUE
  ELSE a.createdAt - b.createdAt < 0

\* The comparison of getNextItem's sort is negative for (a, b).
itemBefore(a, b) ==
  IF a.status # "pending" /\ b.status = "pending" THEN FALSE
  ELSE IF a.status = "pending" /\ b.status # "pending" THEN TRUE
  ELSE IF priorityValues[b.priority] - priorityValues[a.priority] # 0
       THEN priorityValues[b.priority] - priorityValues[a.priority] < 0
       ELSE a.createdAt - b.createdAt < 0

\* this.items.sort(...)
sortItems(its) ==
  sort(its, {ab \in {its[i] : i \in 1..Len(its)} \X {its[i] : i \in 1..Len(its)} :
               itemBefore(ab[1], ab[2])})

\* this.items.find(item => item.status === 'pending'): the position of the
\* first match, 0 for undefined
findPending(its) ==
  IF \E i \in 1..Len(its) : its[i].status = "pending"
  THEN CHOOSE i \in 1..Len(its) :
         /\ its[i].status = "pending"
         /\ \A j \in 1..(i - 1) : its[j].status # "pending"
  ELSE 0

\* this.items.find(item => item.id === id)
findItem(its, id) ==
  IF \E i \in 1..Len(its) : its[i].id = id
  THEN CHOOSE i \in 1..Len(its) :
         /\ its[i].id = id
         /\ \A j \in 1..(i - 1) : its[j].id # id
  ELSE 0

saveQueue(its) == queueWrites (+) SetToBag({its})

\* At most n writes of the queue are in flight after the step.
queueWritesWithin(n) == BagCardinality(queueWrites') <= n

\* A write of the queue in flight reaches the file.
queueSaveDone ==
  \E w \in BagToSet(queueWrites) :
    /\ queueWrites' = queueWrites (-) SetToBag({w})
    /\ queueFile' = Some(w)
    /\ event' = Ev("saveQueue", "ok")
    /\ UNCHANGED <<items, queueLoading, itemIds, handedOut, clock, registryVars, monitorVars, metrics>>

\* The constructor's loadQueue() resumes after `await this.storage.load`:
\* a stored value replaces this.items.
loadQueue ==
  /\ queueLoading
  /\ queueLoading' = FALSE
  /\ items' = IF queueFile # Null THEN queueFile[1] ELSE items
  /\ event' = Ev("loadQueue", "ok")
  /\ UNCHANGED <<queueFile, queueWrites, itemIds, handedOut, clock, registryVars, monitorVars, metrics>>

\* addItem(item), called `elapsed` milliseconds after the last reading of
\* the clock.  generateId() draws 20 random digits: a fresh id.
addItem(priority, elapsed) ==
  /\ itemIds < MaxItems
  /\ clock' = clock + elapsed
  /\ itemIds' = itemIds + 1
  /\ items' = Append(items, WorkItem(itemIds', priority, "pending", clock'))
  /\ queueWrites' = saveQueue(items')
  /\ event' = [op |-> "addItem", outcome |-> "ok", id |-> itemIds']
  /\ UNCHANGED <<queueFile, queueLoading, handedOut, registryVars, monitorVars, metrics>>

\* getNextItem(): sorts this.items in place, marks the first pending item
\* and saves; without a pending item it returns undefined after the sort.
getNextItem ==
  LET sorted == sortItems(items)
      k == findPending(sorted)
  IN  /\ items' = IF k = 0 THEN sorted ELSE [sorted EXCEPT ![k].status = "in-progress"]
      /\ queueWrites' = IF k = 0 THEN queueWrites ELSE saveQueue(items')
      /\ handedOut' = IF k = 0 THEN handedOut ELSE handedOut \cup {sorted[k].id}
      /\ event' = [op |-> "getNextItem", outcome |-> "ok",
                   item |-> IF k = 0 THEN Null ELSE Some(items'[k])]
      /\ UNCHANGED <<queueFile, queueLoading, itemIds, clock, registryVars, monitorVars, metrics>>

\* updateItemStatus(id, status)
updateItemStatus(id, status) ==
  LET k == findItem(items, id)
  IN  /\ items' = IF k = 0 THEN items ELSE [items EXCEPT ![k].status = status]
      /\ queueWrites' = IF k = 0 THEN queueWrites ELSE saveQueue(items')
      /\ handedOut' = IF k # 0 /\ status = "pending" THEN handedOut \ {id} ELSE handedOut
      /\ event' = [op |-> "updateItemStatus",
                   outcome |-> IF k = 0 THEN "false" ELSE "true", id |-> id]
      /\ UNCHANGED <<queueFile, queueLoading, itemIds, clock, registryVars, monitorVars, metrics>>

\* removeItem(id)
removeItem(id) ==
  LET keep(item) == item.id # id
  IN  /\ items' = SelectSeq(items, keep)
      /\ queueWrites' = IF Len(items') # Len(items) THEN saveQueue(items') ELSE queueWrites
      /\ event' = [op |-> "removeItem",
                   outcome |-> IF Len(items') # Len(items) THEN "true" ELSE "false",
                   id |-> id]
      /\ UNCHANGED <<queueFile, queueLoading, itemIds, handedOut, clock, registryVars, monitorVars, metrics>>

\* listItems(): a copy of this.items (the ids are kept here).
listItems ==
  /\ event' = [op |-> "listItems", outcome |-> "ok",
               ids |-> [k \in 1..Len(items) |-> items[k].id]]
  /\ UNCHANGED <<queueVars, clock, registryVars, monitorVars, metrics>>

\* No WorkQueue has been constructed.
NoWorkQueue ==
  /\ items = <<>>
  /\ queueFile = Null
  /\ queueWrites = EmptyBag
  /\ queueLoading = FALSE
  /\ itemIds = 0
  /\ handedOut = {}

ItemIdsInUse == {items[i].id : i \in 1..Len(items)}

----------------------------------------------------------------------------
(* AgentMonitor and the runs of AugmentController                          *)

MonitorIds == 1..MaxRuns

\* new AgentMonitor(heartbeatFrequency): the unit of the clock is the
\* frequency of the monitor.
HeartbeatFrequency == 1

AgentStatus(status, lastHeartbeat, operations) ==
  [status |-> status, lastHeartbeat |-> lastHeartbeat, operations |-> operations]

\* The next agent id: `agent-${Date.now()}-${random}` in startAgent, the
\* caller's choice in registerAgent; an id not in use.
FreeIds == {id \in MonitorIds : monitored[id] = Null}

\* No AgentMonitor has been constructed.
NoMonitor ==
  /\ monitored = [id \in MonitorIds |-> Null]
  /\ heartbeatInterval = Null
  /\ runs = [id \in MonitorIds |-> Null]

\* AgentMonitor.registerAgent(agentId) on the map m
monitorRegister(m, id, now) ==
  [m EXCEPT ![id] = Some(AgentStatus("STARTING", now, <<>>))]

\* AgentMonitor.recordHeartbeat(agentId) on the map m
recordHeartbeat(m, id, now) ==
  IF m[id] = Null THEN m
  ELSE [m EXCEPT ![id] = Some(AgentStatus("RUNNING", now,
                                          Append(m[id][1].operations, "HEARTBEAT")))]

\* AgentMonitor.recordCompletion(agentId, result) on the map m
recordCompletion(m, id, success) ==
  IF m[id] = Null THEN m
  ELSE [m EXCEPT ![id] = Some(AgentStatus(IF success THEN "COMPLETED" ELSE "FAILED",
                                          m[id][1].lastHeartbeat,
                                          Append(m[id][1].operations, "COMPLETION")))]

\* AgentMonitor.recordError(agentId, error) on the map m
recordError(m, id) ==
  IF m[id] = Null THEN m
  ELSE [m EXCEPT ![id] = Some(AgentStatus("FAILED", m[id][1].lastHeartbeat,
                                          Append(m[id][1].operations, "ERROR")))]

\* Time passes.
advanceClock ==
  /\ clock < MaxTime
  /\ clock' = clock + 1
  /\ event' = Ev("advanceClock", "ok")
  /\ UNCHANGED <<monitorVars, registryVars, queueVars, metrics>>

\* A caller registers an agent with the monitor.
registerMonitored(id) ==
  /\ id \in FreeIds
  /\ monitored' = monitorRegister(monitored, id, clock)
  /\ event' = [op |-> "registerAgent", outcome |-> "ok", id |-> id]
  /\ UNCHANGED <<heartbeatInterval, runs, clock, registryVars, queueVars, metrics>>

\* An agent that a caller has registered reports a heartbeat.
reportHeartbeat(id) ==
  /\ monitored[id] # Null
  /\ runs[id] = Null
  /\ Len(monitored[id][1].operations) < MaxOperations
  /\ monitored' = recordHeartbeat(monitored, id, clock)
  /\ event' = [op |-> "recordHeartbeat", outcome |-> "true", id |-> id]
  /\ UNCHANGED <<heartbeatInterval, runs, clock, registryVars, queueVars, metrics>>

\* The callback of the monitor's setInterval that disconnects an agent as
\* soon as its heartbeat is older than one frequency.
heartbeatMonitorOneFrequency ==
  LET late(id) == /\ monitored[id] # Null
                  /\ monitored[id][1].status = "RUNNING"
                  /\ clock - monitored[id][1].lastHeartbeat > HeartbeatFrequency
  IN  /\ heartbeatInterval # Null
      /\ monitored' = [id \in MonitorIds |->
                         IF late(id)
                         THEN Some(AgentStatus("DISCONNECTED", monitored[id][1].lastHeartbeat,
                                               Append(monitored[id][1].operations, "DISCONNECTION")))
                         ELSE monitored[id]]
      /\ event' = Ev("heartbeatMonitor", "ok")
      /\ UNCHANGED <<heartbeatInterval, runs, clock, registryVars, queueVars, metrics>>

\* The callback of the monitor's setInterval; the timer is set while
\* heartbeatInterval holds it (only the constructor sets it, only dispose
\* clears it).
heartbeatMonitor ==
  LET late(id) == /\ monitored[id] # Null
                  /\ monitored[id][1].status = "RUNNING"
                  /\ clock - monitored[id][1].lastHeartbeat > HeartbeatFrequency * 2
  IN  /\ heartbeatInterval # Null
      /\ monitored' = [id \in MonitorIds |->
                         IF late(id)
                         THEN Some(AgentStatus("DISCONNECTED", monitored[id][1].lastHeartbeat,
                                               Append(monitored[id][1].operations, "DISCONNECTION")))
                         ELSE monitored[id]]
      /\ event' = Ev("heartbeatMonitor", "ok")
      /\ UNCHANGED <<heartbeatInterval, runs, clock, registryVars, queueVars, metrics>>

\* dispose()
dispose ==
  /\ heartbeatInterval' = Null
  /\ event' = Ev("dispose", "ok")
  /\ UNCHANGED <<monitored, runs, clock, registryVars, queueVars, metrics>>

\* A run of runAgentProcess: its heartbeat interval and its timeout are set
\* or not, the simulated operation is pending or has settled.
Run(heartbeat, timeout, operation) ==
  [heartbeat |-> heartbeat, timeout |-> timeout, operation |-> operation]

\* startAgent(task, timeout): registers the agent and calls runAgentProcess,
\* which runs to its await of simulateAugmentOperation: it records a
\* heartbeat, sets the heartbeat interval, the timeout and the timer of the
\* operation.
startAgent(id) ==
  /\ id \in FreeIds
  /\ monitored' = recordHeartbeat(monitorRegister(monitored, id, clock), id, clock)
  /\ runs' = [runs EXCEPT ![id] = Some(Run(TRUE, TRUE, "pending"))]
  /\ event' = [op |-> "startAgent", outcome |-> "ok", id |-> id]
  /\ UNCHANGED <<heartbeatInterval, clock, registryVars, queueVars, metrics>>

\* The callback of the run's heartbeat interval.
runHeartbeat(id) ==
  /\ runs[id] # Null
  /\ runs[id][1].heartbeat
  /\ Len(monitored[id][1].operations) < MaxOperations
  /\ monitored' = recordHeartbeat(monitored, id, clock)
  /\ event' = [op |-> "runHeartbeat", outcome |-> "ok", id |-> id]
  /\ UNCHANGED <<heartbeatInterval, runs, clock, registryVars, queueVars, metrics>>

\* runTimeout that leaves the heartbeat interval set
runTimeoutKeepsHeartbeat(id) ==
  /\ runs[id] # Null
  /\ runs[id][1].timeout
  /\ runs' = [runs EXCEPT ![id] = Some(Run(runs[id][1].heartbeat, FALSE, runs[id][1].operation))]
  /\ monitored' = recordCompletion(monitored, id, FALSE)
  /\ event' = [op |-> "runTimeout", outcome |-> "ok", id |-> id]
  /\ UNCHANGED <<heartbeatInterval, clock, registryVars, queueVars, metrics>>

\* The callback of the run's timeout: clears the heartbeat interval and
\* records a completion without success.  The operation stays pending.
runTimeout(id) ==
  /\ runs[id] # Null
  /\ runs[id][1].timeout
  /\ runs' = [runs EXCEPT ![id] = Some(Run(FALSE, FALSE, runs[id][1].operation))]
  /\ monitored' = recordCompletion(monitored, id, FALSE)
  /\ event' = [op |-> "runTimeout", outcome |-> "ok", id |-> id]
  /\ UNCHANGED <<heartbeatInterval, clock, registryVars, queueVars, metrics>>

\* operationSettles that records nothing when the operation fails
operationSettlesDropsFailure(id, success) ==
  /\ runs[id] # Null
  /\ runs[id][1].operation = "pending"
  /\ runs' = [runs EXCEPT ![id] = Some(Run(FALSE, FALSE, "settled"))]
  /\ monitored' = IF success THEN recordCompletion(monitored, id, TRUE) ELSE monitored
  /\ event' = [op |-> "operationSettles",
               outcome |-> IF success THEN "resolved" ELSE "rejected", id |-> id]
  /\ UNCHANGED <<heartbeatInterval, clock, registryVars, queueVars, metrics>>

\* The timer of simulateAugmentOperation fires and runAgentProcess resumes:
\* it clears the timeout and the heartbeat interval and records the
\* completion (resolved) or the error (rejected).
operationSettles(id, success) ==
  /\ runs[id] # Null
  /\ runs[id][1].operation = "pending"
  /\ runs' = [runs EXCEPT ![id] = Some(Run(FALSE, FALSE, "settled"))]
  /\ monitored' = IF success THEN recordCompletion(monitored, id, TRUE)
                   ELSE recordError(monitored, id)
  /\ event' = [op |-> "operationSettles",
               outcome |-> IF success THEN "resolved" ELSE "rejected", id |-> id]
  /\ UNCHANGED <<heartbeatInterval, clock, registryVars, queueVars, metrics>>

----------------------------------------------------------------------------
(* PerformanceMetrics: the reads over this.metrics                         *)

PerformanceMetric(name, value, timestamp) ==
  [name |-> name, value |-> value, unit |-> "count", timestamp |-> timestamp]

\* A filter of getMetrics: every criterion is Null (absent) or Some(v).
\* getSuccessRate passes name and value, and with a time range startTime
\* and endTime.
Filter(name, value, startTime, endTime) ==
  [name |-> name, value |-> value, unit |-> Null, minValue |-> Null,
   maxValue |-> Null, startTime |-> startTime, endTime |-> endTime]

\* `filter.x && ...`: the criterion is there and is not '' (a string), not 0
\* (a number).
truthyString(criterion) == criterion # Null /\ criterion[1] # ""
truthyNumber(criterion) == criterion # Null /\ criterion[1] # 0

\* The callback of this.metrics.filter in getMetrics(filter): it reads name,
\* unit, minValue, maxValue, startTime and endTime of the filter.
matches(metric, filter) ==
  /\ ~(truthyString(filter.name) /\ metric.name # filter.name[1])
  /\ ~(truthyString(filter.unit) /\ metric.unit # filter.unit[1])
  /\ ~(filter.minValue # Null /\ metric.value < filter.minValue[1])
  /\ ~(filter.maxValue # Null /\ metric.value > filter.maxValue[1])
  /\ ~(truthyNumber(filter.startTime) /\ metric.timestamp < filter.startTime[1])
  /\ ~(truthyNumber(filter.endTime) /\ metric.timestamp > filter.endTime[1])

\* getMetrics(filter) with a filter
getMetrics(ms, filter) ==
  LET match(metric) == matches(metric, filter)
  IN  SelectSeq(ms, match)

\* The value getSuccessRate(timeRange) returns, as the fraction
\* <<numerator, denominator>>; timeRange is Null or Some([start, end]).
successRate(ms, timeRange) ==
  LET startTime == IF timeRange = Null THEN Null ELSE Some(timeRange[1].start)
      endTime == IF timeRange = Null THEN Null ELSE Some(timeRange[1].end)
      successMetrics == getMetrics(ms, Filter(Some("operation_success"), Some(1),
                                              startTime, endTime))
      failureMetrics == getMetrics(ms, Filter(Some("operation_success"), Some(0),
                                              startTime, endTime))
      total == Len(successMetrics) + Len(failureMetrics)
  IN  IF total = 0 THEN <<100, 1>> ELSE <<Len(successMetrics) * 100, total>>

getSuccessRate(timeRange) ==
  /\ event' = [op |-> "getSuccessRate", outcome |-> "ok", timeRange |-> timeRange,
               rate |-> successRate(metrics, timeRange)]
  /\ UNCHANGED <<metrics, clock, registryVars, queueVars, monitorVars>>

----------------------------------------------------------------------------
(* Specifications *)

\* The objects a specification does not construct.
NoOtherObjects == NoWorkQueue /\ NoMonitor /\ metrics = <<>>

\* Agent ids a caller may pass: the ids of the agents in the registry, the
\* ids registerAgent has returned since a construction at time `first`
\* (their agents may be gone) when each call came one millisecond after the
\* previous one and drew the random number 0, an id that no agent has.
KnownIds == {agents[i].id : i \in Indices(agents)}
ReturnedIds(first) == {generateId(now, 0) : now \in (first + 1)..clock}
UnknownId == 0

\* The registry files with at most n agents (ids 1..k), each at most `over`
\* above its capacity.
StoredRegistries(n, specs, statuses, maxCap, over) ==
  LET fields == {a \in [specialization : specs, capacity : 1..maxCap,
                        currentLoad : 0..(maxCap + over), status : statuses] :
                   a.currentLoad <= a.capacity + over}
  IN  {[i \in 1..Len(f) |->
          Agent(i, f[i].specialization, f[i].capacity, f[i].currentLoad,
                f[i].status)] :
       f \in UNION {[1..k -> fields] : k \in 0..n}}

\* A MultiAgentOrchestrationImpl whose loadAgents() has completed: over a
\* directory with no registry file this.agents is empty, otherwise it is the
\* stored registry.  Stored agents may be over capacity.
Init ==
  /\ \/ agents = <<>> /\ storage = Null
     \/ \E r \in StoredRegistries(MaxAgents, {"general"}, {"RUNNING"}, MaxCap, MaxOver) :
          agents = r /\ storage = Some(r)
  /\ writes = EmptyBag
  /\ taskLoads = EmptyBag
  /\ loading = FALSE
  /\ clock = MaxAgents + 1
  /\ added = NoneAdded
  /\ event = Ev("loadAgents", "ok")
  /\ balanceInterval = Null
  /\ timers = {}
  /\ returned = Null
  /\ NoOtherObjects

\* Calls of registerAgent come in different milliseconds here, and every call
\* waits while a write is in flight.
Next ==
  \/ saveDone
  \/ \E sp \in SpecInputs, c \in 1..MaxCap :
       registerAgent(sp, c, 1, 0) /\ writesWithin(MaxWrites)
  \/ \E id \in KnownIds : assignTask(id) /\ writesWithin(MaxWrites)
  \/ \E t \in TaskIds : assignTaskStart(t)
  \/ \E t \in TaskIds : assignTaskResume(t) /\ writesWithin(MaxWrites)
  \/ \E id \in KnownIds : completeTask(id) /\ writesWithin(MaxWrites)
  \/ \E id \in KnownIds, st \in StatusInputs :
       updateAgentStatus(id, st) /\ writesWithin(MaxWrites)
  \/ balanceLoad /\ writesWithin(MaxWrites)

Spec == Init /\ [][Next]_vars

----------------------------------------------------------------------------
(* The load balancer over stored registries of up to MaxStored agents, any *)
(* of them over capacity: rebalance passes interleaved with completions,   *)
(* explicit assignments and the writes they start.                         *)

InitBalance ==
  /\ \E r \in StoredRegistries(MaxStored, {"general"}, {"RUNNING"}, MaxStoredCap, MaxOver) :
       agents = r /\ storage = Some(r)
  /\ writes = EmptyBag
  /\ taskLoads = EmptyBag
  /\ loading = FALSE
  /\ clock = MaxStored + 1
  /\ added = NoneAdded
  /\ event = Ev("loadAgents", "ok")
  /\ balanceInterval = Null
  /\ timers = {}
  /\ returned = Null
  /\ NoOtherObjects

NextBalance ==
  \/ balanceLoad /\ writesWithin(MaxWrites)
  \/ saveDone
  \/ \E id \in KnownIds \cup {UnknownId} :
       completeTask(id) /\ writesWithin(MaxWrites)
  \/ \E id \in KnownIds \cup {UnknownId} :
       assignTask(id) /\ writesWithin(MaxWrites)

SpecBalance == InitBalance /\ [][NextBalance]_vars

----------------------------------------------------------------------------
(* From construction: the constructor has started loadAgents() and         *)
(* returned; the caller registers agents and assigns to the agents it      *)
(* registered while the load and the writes are in flight.                 *)

InitLoad ==
  /\ agents = <<>>
  /\ storage \in {Null} \cup
       {Some(r) : r \in StoredRegistries(MaxAgents, {"general"}, {"RUNNING"}, MaxCap, 0)}
  /\ writes = EmptyBag
  /\ taskLoads = EmptyBag
  /\ loading = TRUE
  /\ clock = MaxAgents + 1
  /\ added = NoneAdded
  /\ event = Ev("constructor", "ok")
  /\ balanceInterval = Null
  /\ timers = {}
  /\ returned = Null
  /\ NoOtherObjects

NextLoad ==
  \/ loadAgents
  \/ saveDone
  \/ saveFailed
  \/ \E c \in 1..MaxCap :
       registerAgent("general", c, 1, 0) /\ writesWithin(MaxWrites)
  \/ \E id \in KnownIds \cup ReturnedIds(MaxAgents + 1) :
       assignTask(id) /\ writesWithin(MaxWrites)

SpecLoad == InitLoad /\ [][NextLoad]_vars

----------------------------------------------------------------------------
(* Calls that name an agent or a task which is not there, among calls that *)
(* name the agents of the registry.                                        *)

NextNotFound ==
  \/ saveDone
  \/ \E id \in KnownIds \cup {UnknownId} : getAgent(id)
  \/ \E id \in KnownIds \cup {UnknownId}, st \in StatusInputs :
       updateAgentStatus(id, st) /\ writesWithin(MaxWrites)
  \/ \E id \in KnownIds \cup {UnknownId} :
       completeTask(id) /\ writesWithin(MaxWrites)
  \/ \E id \in KnownIds \cup {UnknownId} :
       assignTask(id) /\ writesWithin(MaxWrites)
  \/ \E t \in TaskIds : assignTaskStart(t)
  \/ \E t \in TaskIds : assignTaskResume(t) /\ writesWithin(MaxWrites)

SpecNotFound == Init /\ [][NextNotFound]_vars

----------------------------------------------------------------------------
(* Registrations that may come within one millisecond and draw any random  *)
(* number, into an empty registry.                                         *)

InitIds ==
  /\ agents = <<>>
  /\ storage = Null
  /\ writes = EmptyBag
  /\ taskLoads = EmptyBag
  /\ loading = FALSE
  /\ clock = 1
  /\ added = NoneAdded
  /\ event = Ev("loadAgents", "ok")
  /\ balanceInterval = Null
  /\ timers = {}
  /\ returned = Null
  /\ NoOtherObjects

NextIds ==
  \/ saveDone
  \/ \E sp \in SpecInputs, c \in 1..MaxCap, elapsed \in 0..1,
         random \in 0..(RandomRange - 1) :
       registerAgent(sp, c, elapsed, random) /\ writesWithin(MaxConcurrentWrites)
  \/ \E id \in KnownIds : getAgent(id)

SpecIds == InitIds /\ [][NextIds]_vars

----------------------------------------------------------------------------
(* Calls that overlap: a call is made while the writes of earlier calls    *)
(* are in flight, and the writes end in any order.  No write fails.        *)

NextSave ==
  \/ saveDone
  \/ \E c \in 1..MaxCap :
       registerAgent("general", c, 1, 0) /\ writesWithin(MaxConcurrentWrites)
  \/ \E id \in KnownIds, st \in StatusInputs :
       updateAgentStatus(id, st) /\ writesWithin(MaxConcurrentWrites)
  \/ \E id \in KnownIds : assignTask(id) /\ writesWithin(MaxConcurrentWrites)
  \/ \E id \in KnownIds : completeTask(id) /\ writesWithin(MaxConcurrentWrites)

SpecSave == InitIds /\ [][NextSave]_vars

----------------------------------------------------------------------------
(* Writes that may fail, one call at a time.                               *)

NextSaveFail ==
  \/ saveDone
  \/ saveFailed
  \/ \E c \in 1..MaxCap :
       registerAgent("general", c, 1, 0) /\ writesWithin(MaxWrites)
  \/ \E id \in KnownIds, st \in StatusInputs :
       updateAgentStatus(id, st) /\ writesWithin(MaxWrites)
  \/ \E id \in KnownIds : assignTask(id) /\ writesWithin(MaxWrites)
  \/ \E id \in KnownIds : completeTask(id) /\ writesWithin(MaxWrites)
  \/ balanceLoad /\ writesWithin(MaxWrites)

SpecSaveFail == Init /\ [][NextSaveFail]_vars

----------------------------------------------------------------------------
(* A LoadBalancer over a loaded registry: its constructor has called       *)
(* startAutoBalancing.  Timer callbacks interleave with completions,       *)
(* assignments, the writes, and calls of start and stop.                   *)

InitTimer ==
  /\ \E r \in StoredRegistries(MaxAgents, {"general"}, {"RUNNING"}, MaxCap, MaxOver) :
       agents = r /\ storage = Some(r)
  /\ writes = EmptyBag
  /\ taskLoads = EmptyBag
  /\ loading = FALSE
  /\ clock = MaxAgents + 1
  /\ added = NoneAdded
  /\ event = Ev("startAutoBalancing", "ok")
  /\ balanceInterval = Some(1)
  /\ timers = {1}
  /\ returned = Null
  /\ NoOtherObjects

NextTimer ==
  \/ \E h \in timers : timerTick(h) /\ writesWithin(MaxConcurrentWrites)
  \/ saveDone
  \/ startAutoBalancing
  \/ stopAutoBalancing
  \/ \E id \in KnownIds : completeTask(id) /\ writesWithin(MaxConcurrentWrites)
  \/ \E id \in KnownIds : assignTask(id) /\ writesWithin(MaxConcurrentWrites)

SpecTimer == InitTimer /\ [][NextTimer]_vars

----------------------------------------------------------------------------
(* The classifier: calls of determineSpecialization and addPatterns on an  *)
(* AgentSpecializationManager.                                             *)

NextClassify ==
  \/ \E a \in AddInputs : addPatterns(a.specialization, a.patterns)
  \/ \E d \in Descriptions, f \in FileLists : classify(d, f)

SpecClassify == InitIds /\ [][NextClassify]_vars

----------------------------------------------------------------------------
(* The reads of a LoadBalancer over loaded registries of agents of         *)
(* capacity 2 or MaxRatioCap, RUNNING or FAILED, at most one above         *)
(* capacity.                                                               *)

RatioRegistries ==
  LET fields == {a \in [capacity : {2, MaxRatioCap}, currentLoad : 0..(MaxRatioCap + 1),
                        status : {"RUNNING", "FAILED"}] :
                   a.currentLoad <= a.capacity + 1}
  IN  {[i \in 1..Len(f) |->
          Agent(i, "general", f[i].capacity, f[i].currentLoad, f[i].status)] :
       f \in UNION {[1..k -> fields] : k \in 0..MaxRatioAgents}}

InitNeeded ==
  /\ \E r \in RatioRegistries : agents = r /\ storage = Some(r)
  /\ writes = EmptyBag
  /\ taskLoads = EmptyBag
  /\ loading = FALSE
  /\ clock = MaxRatioAgents + 1
  /\ added = NoneAdded
  /\ event = Ev("startAutoBalancing", "ok")
  /\ balanceInterval = Some(1)
  /\ timers = {1}
  /\ returned = Null
  /\ NoOtherObjects

NextNeeded ==
  \/ isLoadBalancingNeeded
  \/ getLoadDistribution

SpecNeeded == InitNeeded /\ [][NextNeeded]_vars

----------------------------------------------------------------------------
(* A caller that reads the registry between the operations that change it, *)
(* keeps the array of its latest getAgents() and pushes to it and pops     *)
(* from it.                                                                *)

NextFrame ==
  \/ saveDone
  \/ \E c \in 1..MaxCap :
       registerAgent("general", c, 1, 0) /\ writesWithin(MaxWrites)
  \/ \E id \in KnownIds, st \in StatusInputs :
       updateAgentStatus(id, st) /\ writesWithin(MaxWrites)
  \/ \E id \in KnownIds : assignTask(id) /\ writesWithin(MaxWrites)
  \/ \E id \in KnownIds : completeTask(id) /\ writesWithin(MaxWrites)
  \/ balanceLoad /\ writesWithin(MaxWrites)
  \/ \E id \in KnownIds \cup {UnknownId} : getAgent(id)
  \/ getAgents
  \/ returnedPush
  \/ returnedPop
  \/ isLoadBalancingNeeded
  \/ getLoadDistribution

SpecFrame == Init /\ [][NextFrame]_vars

----------------------------------------------------------------------------
(* A WorkQueue whose loadQueue() has completed over a directory with no    *)
(* queue file: items of any priority are added, handed out and set back    *)
(* to pending, one call at a time.                                         *)

NoRegistry ==
  /\ agents = <<>>
  /\ storage = Null
  /\ writes = EmptyBag
  /\ taskLoads = EmptyBag
  /\ loading = FALSE
  /\ added = NoneAdded
  /\ balanceInterval = Null
  /\ timers = {}
  /\ returned = Null

InitQueue ==
  /\ NoRegistry /\ NoMonitor /\ metrics = <<>>
  /\ NoWorkQueue
  /\ clock = 1
  /\ event = Ev("loadQueue", "ok")

NextQueue ==
  \/ queueSaveDone
  \/ \E p \in PriorityInputs, elapsed \in 0..1 :
       addItem(p, elapsed) /\ queueWritesWithin(MaxWrites)
  \/ getNextItem /\ queueWritesWithin(MaxWrites)
  \/ \E id \in ItemIdsInUse :
       updateItemStatus(id, "pending") /\ queueWritesWithin(MaxWrites)

SpecQueue == InitQueue /\ [][NextQueue]_vars

----------------------------------------------------------------------------
(* From the construction of a WorkQueue: the constructor has started       *)
(* loadQueue() and returned; the caller adds items and works on them while *)
(* the load and the writes are in flight.  The directory may hold a queue  *)
(* file of an earlier run.                                                 *)

StoredQueues ==
  {<<>>, <<WorkItem(MaxItems + 1, "medium", "pending", 0)>>}

InitQueueLoad ==
  /\ NoRegistry /\ NoMonitor /\ metrics = <<>>
  /\ items = <<>>
  /\ queueFile \in {Null} \cup {Some(q) : q \in StoredQueues}
  /\ queueWrites = EmptyBag
  /\ queueLoading = TRUE
  /\ itemIds = 0
  /\ handedOut = {}
  /\ clock = 1
  /\ event = Ev("constructor", "ok")

NextQueueLoad ==
  \/ loadQueue
  \/ queueSaveDone
  \/ addItem("medium", 1) /\ queueWritesWithin(MaxWrites)
  \/ getNextItem /\ queueWritesWithin(MaxWrites)
  \/ \E id \in ItemIdsInUse, st \in ItemStatusInputs :
       updateItemStatus(id, st) /\ queueWritesWithin(MaxWrites)
  \/ \E id \in ItemIdsInUse : removeItem(id) /\ queueWritesWithin(MaxWrites)
  \/ listItems

SpecQueueLoad == InitQueueLoad /\ [][NextQueueLoad]_vars

----------------------------------------------------------------------------
(* An AgentMonitor and an AugmentController over it: agents are started by *)
(* the controller or registered by a caller; the timers of the runs and of *)
(* the monitor fire in any order while time passes.                        *)

InitMonitor ==
  /\ NoRegistry /\ NoWorkQueue /\ metrics = <<>>
  /\ monitored = [id \in MonitorIds |-> Null]
  /\ heartbeatInterval = Some(1)
  /\ runs = [id \in MonitorIds |-> Null]
  /\ clock = 0
  /\ event = Ev("constructor", "ok")

NextMonitor ==
  \/ advanceClock
  \/ \E id \in MonitorIds : registerMonitored(id)
  \/ \E id \in MonitorIds : reportHeartbeat(id)
  \/ \E id \in MonitorIds : startAgent(id)
  \/ \E id \in MonitorIds : runHeartbeat(id)
  \/ \E id \in MonitorIds : runTimeout(id)
  \/ \E id \in MonitorIds, success \in BOOLEAN : operationSettles(id, success)
  \/ heartbeatMonitor
  \/ dispose

SpecMonitor == InitMonitor /\ [][NextMonitor]_vars

----------------------------------------------------------------------------
(* The runs of the controller under the assumption that timers fire: the   *)
(* timer of simulateAugmentOperation (5 to 10 seconds) is never cleared,   *)
(* so the operation of every run settles.  The timeout may fire before it  *)
(* or not at all (it is cleared when the operation settles first).         *)

NextRun ==
  \/ advanceClock
  \/ \E id \in MonitorIds : startAgent(id)
  \/ \E id \in MonitorIds : runHeartbeat(id)
  \/ \E id \in MonitorIds : runTimeout(id)
  \/ \E id \in MonitorIds, success \in BOOLEAN : operationSettles(id, success)
  \/ heartbeatMonitor

SpecRun ==
  /\ InitMonitor
  /\ [][NextRun]_vars
  /\ \A id \in MonitorIds :
       WF_vars(\E success \in BOOLEAN : operationSettles(id, success))

----------------------------------------------------------------------------
(* A PerformanceMetrics that holds up to MaxMetrics metrics, asked for the *)
(* success rate with and without a time range.                             *)

MetricLists ==
  LET metric == {PerformanceMetric(n, v, ts) :
                   n \in {"operation_success", "cpu_usage"}, v \in {0, 1},
                   ts \in 1..MaxTimestamp}
  IN  UNION {[1..k -> metric] : k \in 0..MaxMetrics}

TimeRanges ==
  {Null} \cup {Some([start |-> s, end |-> e]) : s \in 0..MaxTimestamp, e \in 0..MaxTimestamp}

InitMetrics ==
  /\ NoRegistry /\ NoWorkQueue /\ NoMonitor
  /\ metrics \in MetricLists
  /\ clock = MaxTimestamp
  /\ event = Ev("loadMetrics", "ok")

NextMetrics == \E timeRange \in TimeRanges : getSuccessRate(timeRange)

SpecMetrics == InitMetrics /\ [][NextMetrics]_vars

----------------------------------------------------------------------------
(* Properties of the registry                                              *)

withinCapacity(ags) ==
  \A i \in Indices(ags) : ags[i].currentLoad <= ags[i].capacity

full(ags, id) ==
  /\ find(ags, id) # 0
  /\ ags[find(ags, id)].currentLoad >= ags[find(ags, id)].capacity

RECURSIVE totalExcess(_, _)
totalExcess(ags, k) ==
  IF k > Len(ags) THEN 0
  ELSE (IF ags[k].currentLoad > ags[k].capacity
        THEN ags[k].currentLoad - ags[k].capacity ELSE 0)
         + totalExcess(ags, k + 1)

RECURSIVE totalSpare(_, _)
totalSpare(ags, k) ==
  IF k > Len(ags) THEN 0
  ELSE (IF ags[k].currentLoad < ags[k].capacity
        THEN ags[k].capacity - ags[k].currentLoad ELSE 0)
         + totalSpare(ags, k + 1)

overloadedSet(ags) == {i \in Indices(ags) : ags[i].currentLoad > ags[i].capacity}
underloadedSet(ags) == {i \in Indices(ags) : ags[i].currentLoad < ags[i].capacity}

\* C1: in every reachable state of the registry every agent has
\* currentLoad >= 0 (completeTask clamps at 0, a rebalance pass takes from
\* an overloaded agent only its excess).
C1_LoadNeverNegative ==
  \A i \in Indices(agents) : agents[i].currentLoad >= 0

\* completeTask has just run on an agent whose load was 0 already: the
\* registry it leaves is the one the last write stored.
C1_Witness ==
  /\ event = Ev("completeTask", "ok")
  /\ storage = Some(agents)
  /\ \E i \in Indices(agents) : agents[i].currentLoad = 0

\* C2: a step of assignTask (explicit or automatic, whatever else is
\* suspended), completeTask or balanceLoad that starts with every agent
\* within its capacity ends with every agent within its capacity.
C2_AssignmentKeepsCapacity ==
  [][(/\ event'.op \in {"assignTask", "assignTaskStart", "assignTaskAuto",
                        "completeTask", "balanceLoad"}
      /\ withinCapacity(agents))
       => withinCapacity(agents')]_vars

\* An automatic assignment has filled an agent to its capacity while
\* another automatic assignTask is still suspended on its task load.
C2_Witness ==
  /\ event.op = "assignTaskAuto" /\ event.outcome = "ok"
  /\ taskLoads # EmptyBag
  /\ \E i \in Indices(agents) : agents[i].currentLoad = agents[i].capacity
  /\ withinCapacity(agents)

\* C3: the agent whose load an automatic assignment raises had
\* currentLoad < capacity and status RUNNING when it was selected.
C3_AutoAssignSelectsAvailable ==
  [][event'.op = "assignTaskAuto" =>
       \A i \in Indices(agents) :
         agents'[i].currentLoad # agents[i].currentLoad =>
           /\ agents[i].currentLoad < agents[i].capacity
           /\ agents[i].status = "RUNNING"]_vars

\* An automatic assignment has succeeded although another agent with a
\* lower load was there, which is not RUNNING.
C3_Witness ==
  /\ event.op = "assignTaskAuto" /\ event.outcome = "ok"
  /\ \E i, j \in Indices(agents) :
       /\ agents[i].status = "RUNNING" /\ agents[i].currentLoad > 0
       /\ agents[j].status # "RUNNING" /\ agents[j].currentLoad = 0

\* C4: assignTask with the id of an agent that has currentLoad >= capacity
\* ends with CapacityExceeded and leaves every agent as it was (and starts
\* no write).
C4_FullAgentRejects ==
  [][\A id \in KnownIds :
       (assignTask(id) /\ full(agents, id)) =>
          /\ event'.outcome = "CapacityExceeded"
          /\ agents' = agents
          /\ writes' = writes]_vars

\* An explicit assignment has just been refused for capacity.
C4_Witness ==
  /\ event = Ev("assignTask", "CapacityExceeded")
  /\ \E i \in Indices(agents) : agents[i].currentLoad >= agents[i].capacity

\* C5: an assignTask with an id that registerAgent has returned finds the
\* agent; it succeeds and raises the load by one while the load is below
\* the capacity, and is refused once the load has reached it.  So the c
\* assignments after registerAgent(.., c) succeed and the next one fails
\* for capacity.
C5_RegisteredAgentFillsToCapacity ==
  [][\A id \in ReturnedIds(MaxAgents + 1) :
       assignTask(id) =>
         LET i == find(agents, id)
         IN  /\ i # 0
             /\ IF agents[i].currentLoad < agents[i].capacity
                THEN /\ event'.outcome = "ok"
                     /\ agents'[i].currentLoad = agents[i].currentLoad + 1
                ELSE /\ event'.outcome = "CapacityExceeded"
                     /\ agents' = agents]_vars

----------------------------------------------------------------------------
(* Properties of a rebalance pass (a step of balanceLoad)                  *)

\* The registries of section 8 of the specification: before and after.
ExampleBefore == <<Agent(1, "general", 2, 4, "RUNNING"), Agent(2, "general", 3, 0, "RUNNING")>>
ExampleAfter == <<Agent(1, "general", 2, 2, "RUNNING"), Agent(2, "general", 3, 2, "RUNNING")>>

\* C6: after a rebalance pass, every agent that had currentLoad < capacity
\* when the pass started has currentLoad <= capacity.
C6_ReceiversStayWithinCapacity ==
  [][event'.op = "balanceLoad" =>
       \A i \in underloadedSet(agents) :
         agents'[i].currentLoad <= agents'[i].capacity]_vars

\* A pass has moved load and filled an agent that was underloaded (the file
\* still holds the registry from before the pass).
C6_Witness ==
  /\ event = Ev("balanceLoad", "balanced")
  /\ storage # Null
  /\ Len(storage[1]) = Len(agents)
  /\ \E i \in Indices(agents) :
       /\ storage[1][i].currentLoad < storage[1][i].capacity
       /\ agents[i].currentLoad = agents[i].capacity

\* C7: when the spare capacity of the underloaded agents is at least the
\* excess of the overloaded ones, a pass leaves every overloaded agent
\* exactly at its capacity and no agent above it; the registry
\* [{cap 2, load 4}, {cap 3, load 0}] becomes [{cap 2, load 2}, {cap 3, load 2}].
C7_ExcessFullyAbsorbed ==
  [][event'.op = "balanceLoad" =>
       /\ (totalSpare(agents, 1) >= totalExcess(agents, 1)) =>
            /\ \A i \in overloadedSet(agents) :
                 agents'[i].currentLoad = agents'[i].capacity
            /\ withinCapacity(agents')
       /\ agents = ExampleBefore => agents' = ExampleAfter]_vars

\* The pass over the example registry has run.
C7_Witness ==
  /\ event = Ev("balanceLoad", "balanced")
  /\ storage = Some(ExampleBefore)
  /\ agents = ExampleAfter

\* C8: when two or more agents are overloaded and their excess is larger
\* than the spare capacity of the underloaded agents (of which there is at
\* least one), the pass ends without an error and starts one write of the
\* registry it leaves.
C8_ExhaustedPassEndsNormally ==
  [][(/\ event'.op = "balanceLoad"
      /\ Cardinality(overloadedSet(agents)) >= 2
      /\ underloadedSet(agents) # {}
      /\ totalExcess(agents, 1) > totalSpare(agents, 1))
       => /\ event'.outcome = "balanced"
          /\ writes' = saveAgents(agents', "api")]_vars

\* C9: when no agent has currentLoad > capacity, a pass leaves every agent
\* as it was.
C9_NothingOverloadedNoChange ==
  [][(event'.op = "balanceLoad" /\ overloadedSet(agents) = {})
       => /\ agents' = agents
          /\ event'.outcome = "noop"]_vars

\* A pass has left alone a registry with an agent at capacity and an idle one.
C9_Witness ==
  /\ event = Ev("balanceLoad", "noop")
  /\ \E i, j \in Indices(agents) :
       /\ agents[i].currentLoad = agents[i].capacity
       /\ agents[j].currentLoad = 0

\* C10: when some agent is over capacity and none is under it, a pass
\* leaves every agent as it was and ends with the 'cannot balance' warning,
\* not with an error.
C10_NoReceiverNoChange ==
  [][(/\ event'.op = "balanceLoad"
      /\ overloadedSet(agents) # {}
      /\ underloadedSet(agents) = {})
       => /\ agents' = agents
          /\ event'.outcome = "cannotBalance"]_vars

\* A pass has warned that it cannot balance.
C10_Witness ==
  /\ event = Ev("balanceLoad", "cannotBalance")
  /\ overloadedSet(agents) # {}

\* C11: a rebalance pass that runs right after a pass has ended normally
\* changes no agent: in the state a pass leaves, the registry is a fixed
\* point of the pass.
C11_RebalanceIdempotent ==
  (event.op = "balanceLoad" /\ event.outcome # "TypeError")
    => balancePass(agents).ags = agents

\* A pass has moved load, filled every underloaded agent and left an agent
\* over its capacity.
C11_Witness ==
  /\ event = Ev("balanceLoad", "balanced")
  /\ storage # Some(agents)
  /\ overloadedSet(agents) # {}
  /\ \E i \in Indices(agents) :
       /\ storage[1][i].currentLoad < storage[1][i].capacity
       /\ agents[i].currentLoad = agents[i].capacity

----------------------------------------------------------------------------
(* Properties of the automatic assignment (a step of assignTaskResume)     *)

\* The step is the rest of assignTask(t) for a task t that is in the store.
autoAssigns(t) ==
  /\ event'.op = "assignTaskAuto"
  /\ event'.taskId = t
  /\ TaskStore[t] # Null

\* The agents findBestAgentForTask may take: RUNNING, below capacity.
runningWithSpare(ags) ==
  {i \in Indices(ags) :
     ags[i].status = "RUNNING" /\ ags[i].currentLoad < ags[i].capacity}

\* No agent of the set s has a lower currentLoad / capacity than agent i.
lowestRatio(ags, i, s) ==
  \A j \in s :
    ags[i].currentLoad * ags[j].capacity <= ags[j].currentLoad * ags[i].capacity

\* C12: when some RUNNING agent below its capacity has the specialization
\* derived from the task, the automatic assignment raises the load of one of
\* these agents, one with the lowest currentLoad / capacity among them,
\* whatever the load of the 'general' agents.
C12_ExactMatchPreferred ==
  [][\A t \in TaskIds :
       autoAssigns(t) =>
         LET exact == {i \in runningWithSpare(agents) :
                         agents[i].specialization = taskSpecialization(added, t)}
         IN  exact # {} =>
               \E i \in exact :
                 /\ agents' = [agents EXCEPT ![i].currentLoad = @ + 1]
                 /\ lowestRatio(agents, i, exact)]_vars

\* The task "t1" (database) went to the database agent, which had one task
\* of two, and not to the idle RUNNING 'general' agent.
C12_Witness ==
  /\ event.op = "assignTaskAuto" /\ event.outcome = "ok"
  /\ event.taskId = "t1"
  /\ \E i, j \in Indices(agents) :
       /\ agents[i].specialization = "database"
       /\ agents[i].capacity = 2 /\ agents[i].currentLoad = 2
       /\ agents[j].specialization = "general"
       /\ agents[j].status = "RUNNING" /\ agents[j].currentLoad = 0

\* C13: when no RUNNING agent below its capacity has the derived
\* specialization or 'general' and some RUNNING agent is below its capacity,
\* the automatic assignment raises the load of one of the RUNNING agents
\* below capacity, one with the lowest currentLoad / capacity among them all.
C13_FallbackLowestRatio ==
  [][\A t \in TaskIds :
       autoAssigns(t) =>
         LET matching == {i \in runningWithSpare(agents) :
                            agents[i].specialization
                              \in {taskSpecialization(added, t), "general"}}
         IN  (matching = {} /\ runningWithSpare(agents) # {}) =>
               \E i \in runningWithSpare(agents) :
                 /\ event'.outcome = "ok"
                 /\ agents' = [agents EXCEPT ![i].currentLoad = @ + 1]
                 /\ lowestRatio(agents, i, runningWithSpare(agents))]_vars

\* The task "t2" (backend) went to the idle one of two database agents, the
\* other holding one task of two.
C13_Witness ==
  /\ event.op = "assignTaskAuto" /\ event.outcome = "ok"
  /\ event.taskId = "t2"
  /\ Len(agents) = 2
  /\ agents[1].specialization = "database" /\ agents[1].status = "RUNNING"
  /\ agents[1].capacity = 2 /\ agents[1].currentLoad = 1
  /\ agents[2].specialization = "database" /\ agents[2].status = "RUNNING"
  /\ agents[2].capacity = 2 /\ agents[2].currentLoad = 1

\* C14: the automatic assignment of a stored task ends with
\* NoAvailableAgent exactly when no RUNNING agent is below its capacity; then
\* no agent changes; otherwise it ends normally, exactly one agent's
\* currentLoad has grown, by one, and nothing else has changed.
C14_NoAvailableAgentExactly ==
  [][\A t \in TaskIds :
       autoAssigns(t) =>
         IF runningWithSpare(agents) = {}
         THEN event'.outcome = "NoAvailableAgent" /\ agents' = agents
         ELSE /\ event'.outcome = "ok"
              /\ \E i \in Indices(agents) :
                   agents' = [agents EXCEPT ![i].currentLoad = @ + 1]]_vars

\* An automatic assignment was refused although an agent, which is not
\* RUNNING, is below its capacity.
C14_Witness ==
  /\ event.op = "assignTaskAuto" /\ event.outcome = "NoAvailableAgent"
  /\ \E i \in Indices(agents) :
       /\ agents[i].status # "RUNNING"
       /\ agents[i].currentLoad < agents[i].capacity

----------------------------------------------------------------------------
(* Properties of the calls that name a missing agent or task               *)

----------------------------------------------------------------------------
(* Properties of the registry's lifecycle and persistence                  *)

\* C16: every agent that registerAgent has returned since construction is
\* in the registry, in every state, also while the constructor's load is
\* in flight and after it has completed.
C16_RegisteredAgentNeverLost ==
  \A id \in ReturnedIds(MaxAgents + 1) : find(agents, id) # 0

\* C17: no two agents of the registry have the same id.
C17_IdsUnique ==
  \A i, j \in Indices(agents) : i # j => agents[i].id # agents[j].id

\* C18: when no call is in flight (every write has ended, none has failed),
\* the file holds the registry, unless no mutating call was made over an
\* empty directory.
C18_StorageMatchesWhenQuiescent ==
  (writes = EmptyBag /\ taskLoads = EmptyBag)
    => \/ storage = Some(agents)
       \/ storage = Null /\ agents = <<>>

\* C19: when the write of a mutating call fails, the registry stays as the
\* call left it and the call returns normally.
C19_FailedSaveKeepsMutation ==
  [][event'.op = "saveFailed" =>
       /\ agents' = agents
       /\ event'.outcome = "returns"]_vars

\* A write has failed: the registry holds an agent with a task, the file
\* does not hold this registry.
C19_Witness ==
  /\ event = Ev("saveFailed", "returns")
  /\ writes = EmptyBag
  /\ storage # Some(agents)
  /\ \E i \in Indices(agents) : agents[i].currentLoad > 0

\* C20: at most one rebalance pass started by the timer is in flight.
C20_OnePassInFlight ==
  passesInFlight <= 1

----------------------------------------------------------------------------
(* Properties of the periodic balancer and of the pass as one segment      *)

\* C21: all transfers of a rebalance pass happen in the one step of
\* balanceLoad, so no step of assignTask comes between two of them: the
\* registry a pass leaves when it reaches saveAgents has no agent over its
\* capacity or none under it, nothing is left to transfer in a later step.
C21_TransfersInOneStep ==
  [][(event'.op = "balanceLoad" /\ event'.outcome = "balanced")
       => (overloadedSet(agents') = {} \/ underloadedSet(agents') = {})]_vars

\* A pass has moved two units to one agent while an automatic assignTask
\* was suspended on its task load.
C21_Witness ==
  /\ event = Ev("balanceLoad", "balanced")
  /\ taskLoads # EmptyBag
  /\ storage # Null
  /\ \E i \in Indices(agents) :
       /\ i <= Len(storage[1])
       /\ storage[1][i].currentLoad + 2 <= agents[i].currentLoad
       /\ agents[i].currentLoad <= agents[i].capacity

\* C22: stopAutoBalancing leaves no timer set, so that the next callback
\* can only come from a timer set by a later startAutoBalancing, and it
\* leaves the writes that passes in flight wait for, and the registry, as
\* they are; at most one timer is set at any time, the one the balancer
\* holds.
C22_StopClearsTimer ==
  [][(Cardinality(timers') <= 1)
     /\ (event'.op = "stopAutoBalancing"
           => (timers' = {} /\ writes' = writes /\ agents' = agents))
     /\ (event'.op = "startAutoBalancing"
           => timers' = {balanceInterval'[1]})
     /\ (event'.op = "timerTick"
           => (balanceInterval # Null /\ timers = {balanceInterval[1]}))]_vars

\* The balancer was stopped while a pass started by its timer waits for its
\* write.
C22_Witness ==
  /\ event = Ev("stopAutoBalancing", "ok")
  /\ passesInFlight = 1
  /\ timers = {}
  /\ balanceInterval = Null

----------------------------------------------------------------------------
(* Properties of the classifier (a call of determineSpecialization)        *)

\* The highest of the five scores.
maxOfScores(scores) ==
  CHOOSE m \in {scores[sp] : sp \in Specializations} :
    \A sp \in Specializations : scores[sp] <= m

\* The position of a tag in the enumeration order.
orderOf(tag) == CHOOSE k \in 1..Len(SpecializationOrder) : SpecializationOrder[k] = tag

\* The points of the files for the patterns of one tag: 2 for every pair of
\* a file and an extension pattern whose extension ends the lower-cased
\* name, 1 for every pair of a file and a plain pattern that occurs in it.
filePoints(files, patterns) ==
  LET pairs == (1..Len(files)) \X (1..Len(patterns))
  IN  2 * Cardinality({fp \in pairs :
                         /\ isExtensionPattern(patterns[fp[2]])
                         /\ endsWith(toLowerCase(files[fp[1]]), Tail(patterns[fp[2]]))})
        + Cardinality({fp \in pairs :
                         /\ ~isExtensionPattern(patterns[fp[2]])
                         /\ includes(toLowerCase(files[fp[1]]),
                                     toLowerCase(patterns[fp[2]]))})

\* The number of plain patterns that occur in the lower-cased description.
plainPoints(description, patterns) ==
  Cardinality({k \in 1..Len(patterns) :
                 /\ ~isExtensionPattern(patterns[k])
                 /\ includes(toLowerCase(description), toLowerCase(patterns[k]))})

\* C23: the tag returned has the highest score; of several tags with the
\* highest score it is the first in the order frontend, backend, database,
\* devops, general; when every score is 0 it is 'general'.
C23_FirstOfHighestScore ==
  event.op = "determineSpecialization" =>
    LET m == maxOfScores(event.scores)
    IN  /\ event.scores[event.outcome] = m
        /\ m = 0 => event.outcome = "general"
        /\ m > 0 => \A sp \in Specializations :
                       orderOf(sp) < orderOf(event.outcome) => event.scores[sp] < m

\* frontend and backend had the same highest score: frontend was returned.
C23_Witness ==
  /\ event.op = "determineSpecialization"
  /\ event.outcome = "frontend"
  /\ event.scores["frontend"] = event.scores["backend"]
  /\ event.scores["frontend"] > 0

\* C24: with an empty description the score of every tag is the points of
\* the files (2 for an extension match, 1 for a plain pattern in the name);
\* the files ['schema.sql'] with the description 'api' give 'database'
\* under the constructor's table.
C24_FileScoring ==
  event.op = "determineSpecialization" =>
    /\ event.description = <<>> =>
          \A sp \in Specializations :
            event.scores[sp] = filePoints(event.files, specializations(added)[sp])
    /\ (/\ event.description = <<"a", "p", "i">>
        /\ event.files = <<<<"s", "c", "h", "e", "m", "a", ".", "s", "q", "l">>>>
        /\ added = NoneAdded) => event.outcome = "database"

\* 'schema.sql' with 'api' under the constructor's table: database has 3
\* points (2 for *.sql, 1 for sql), backend 1.
C24_Witness ==
  /\ event.op = "determineSpecialization"
  /\ event.description = <<"a", "p", "i">>
  /\ event.files = <<<<"s", "c", "h", "e", "m", "a", ".", "s", "q", "l">>>>
  /\ added = NoneAdded
  /\ event.outcome = "database"
  /\ event.scores["database"] = 3
  /\ event.scores["backend"] = 1

\* C25: without files the score of every tag is the number of its plain
\* patterns that occur in the description; an extension pattern adds
\* nothing, whatever the description.
C25_DescriptionCountsPlainPatternsOnly ==
  (event.op = "determineSpecialization" /\ event.files = <<>>) =>
    \A sp \in Specializations :
      event.scores[sp] = plainPoints(event.description, specializations(added)[sp])

\* C26: the score of 'general' is 0 in every classification, and 'general'
\* is returned only when every tag scores 0.
C26_GeneralNeverScores ==
  event.op = "determineSpecialization" =>
    /\ event.scores["general"] = 0
    /\ event.outcome = "general" =>
          \A sp \in Specializations : event.scores[sp] = 0

----------------------------------------------------------------------------
(* Properties of the reads of LoadBalancer                                 *)

RunningAgents(ags) == {i \in Indices(ags) : ags[i].status = "RUNNING"}

\* The product of the capacities of the agents at the positions in S.
RECURSIVE capacityProduct(_, _)
capacityProduct(ags, S) ==
  IF S = {} THEN 1
  ELSE LET i == CHOOSE x \in S : TRUE
       IN  ags[i].capacity * capacityProduct(ags, S \ {i})

\* The sum of the squares of (ratio of i - ratio of j) * d over the pairs
\* in P.
RECURSIVE squaredGaps(_, _, _)
squaredGaps(ags, P, d) ==
  IF P = {} THEN 0
  ELSE LET p == CHOOSE x \in P : TRUE
           gap == ags[p[1]].currentLoad * (d \div ags[p[1]].capacity)
                    - ags[p[2]].currentLoad * (d \div ags[p[2]].capacity)
       IN  gap * gap + squaredGaps(ags, P \ {p}, d)

\* The population variance of the load ratios of the RUNNING agents is
\* above 0.04: the variance of n values is the sum of the squared
\* differences of the pairs divided by n * n.
spreadExceeds(ags) ==
  LET R == RunningAgents(ags)
      n == Cardinality(R)
      d == capacityProduct(ags, R)
  IN  25 * squaredGaps(ags, {p \in R \X R : p[1] < p[2]}, d) > n * n * d * d

ExampleSpread == <<Agent(1, "general", 10, 1, "RUNNING"), Agent(2, "general", 10, 9, "RUNNING")>>
ExampleEven == <<Agent(1, "general", 10, 5, "RUNNING"), Agent(2, "general", 10, 6, "RUNNING")>>

\* C28: isLoadBalancingNeeded returns true exactly when an agent of any
\* status is above its capacity, or at least two agents are RUNNING and the
\* standard deviation of their load ratios is above 0.2; true for loads 1
\* and 9 of 10, false for loads 5 and 6 of 10.
C28_NeededIffOverloadedOrSpread ==
  event.op = "isLoadBalancingNeeded" =>
    /\ event.needed =
          (\/ \E i \in Indices(agents) : agents[i].currentLoad > agents[i].capacity
           \/ (Cardinality(RunningAgents(agents)) >= 2 /\ spreadExceeds(agents)))
    /\ agents = ExampleSpread => event.needed
    /\ agents = ExampleEven => ~event.needed

\* True for the spread alone: nobody above capacity, two RUNNING agents of
\* different capacities and one that is not RUNNING.
C28_Witness ==
  /\ event.op = "isLoadBalancingNeeded"
  /\ event.needed
  /\ withinCapacity(agents)
  /\ Cardinality(RunningAgents(agents)) = 2
  /\ Len(agents) = 3
  /\ \E i, j \in RunningAgents(agents) : agents[i].capacity # agents[j].capacity

----------------------------------------------------------------------------
(* Frame properties                                                        *)

\* The positions of ags whose currentLoad differs in next by `by`.
loadChanged(ags, next, by) ==
  {i \in Indices(ags) : next[i].currentLoad = ags[i].currentLoad + by}

loadKept(ags, next) ==
  {i \in Indices(ags) : next[i].currentLoad = ags[i].currentLoad}

\* C29: every step keeps the id, the capacity and the specialization of
\* every agent there is; a step of assignTask adds 1 to the load of at most
\* one agent, a step of completeTask takes 1 from the load of at most one
\* agent and never below 0, a step of balanceLoad keeps the sum of the
\* loads, and a step of any other operation (registerAgent,
\* updateAgentStatus, getAgent, getAgents, isLoadBalancingNeeded,
\* getLoadDistribution, the end of a write) keeps every load.
C29_LoadChangedOnlyByAssignCompleteBalance ==
  [][(Len(agents') >= Len(agents))
     /\ (\A i \in Indices(agents) :
           (/\ agents'[i].id = agents[i].id
            /\ agents'[i].capacity = agents[i].capacity
            /\ agents'[i].specialization = agents[i].specialization))
     /\ (event'.op = "assignTask" =>
           (/\ loadKept(agents, agents') \cup loadChanged(agents, agents', 1) = Indices(agents)
            /\ Cardinality(loadChanged(agents, agents', 1)) <= 1))
     /\ (event'.op = "completeTask" =>
           (/\ loadKept(agents, agents') \cup loadChanged(agents, agents', -1) = Indices(agents)
            /\ Cardinality(loadChanged(agents, agents', -1)) <= 1
            /\ \A i \in Indices(agents) : agents'[i].currentLoad >= 0))
     /\ (event'.op = "balanceLoad" =>
           reduceSum(agents', "currentLoad") = reduceSum(agents, "currentLoad"))
     /\ (event'.op \notin {"assignTask", "completeTask", "balanceLoad"} =>
           loadKept(agents, agents') = Indices(agents))]_vars

\* updateAgentStatus has disconnected an agent that carries load, beside
\* another agent.
C29_Witness ==
  /\ event = Ev("updateAgentStatus", "ok")
  /\ Len(agents) = 2
  /\ \E i \in Indices(agents) :
       agents[i].status = "DISCONNECTED" /\ agents[i].currentLoad > 0

RegistryChanges ==
  {"registerAgent", "assignTask", "completeTask", "updateAgentStatus", "balanceLoad"}

\* C30: what a caller reads through the array getAgents returned stays as
\* it was across every later registerAgent, assignTask, completeTask,
\* updateAgentStatus and balanceLoad, and a push to or a pop from the array
\* leaves the registry as it is.
C30_ReturnedIsSnapshot ==
  [][returned # Null =>
       ((event'.op \in RegistryChanges =>
           (/\ returned' = returned
            /\ observed(returned'[1], agents') = observed(returned[1], agents)))
        /\ (event'.op \in {"returned.push", "returned.pop"} =>
              (agents' = agents /\ storage' = storage /\ writes' = writes)))]_vars

----------------------------------------------------------------------------
(* Properties of the transfers of a rebalance pass                         *)

\* The place of agent i in the ascending order of the load ratios of ags,
\* agents of equal ratio in the order of the registry.
ratioRank(ags, i) ==
  1 + Cardinality({j \in Indices(ags) :
                     \/ ags[j].currentLoad * ags[i].capacity
                          < ags[i].currentLoad * ags[j].capacity
                     \/ (/\ ags[j].currentLoad * ags[i].capacity
                             = ags[i].currentLoad * ags[j].capacity
                         /\ j < i)})

\* The agent of E with the lowest ratio in cur; of several, the one that
\* came first in the ascending order of init.
lowestEligible(init, cur, E) ==
  CHOOSE t \in E :
    \A u \in E \ {t} :
      \/ cur[t].currentLoad * cur[u].capacity < cur[u].currentLoad * cur[t].capacity
      \/ (/\ cur[t].currentLoad * cur[u].capacity = cur[u].currentLoad * cur[t].capacity
          /\ ratioRank(init, t) < ratioRank(init, u))

\* n units given one by one, each to the lowest eligible agent; an agent
\* that reaches its capacity is no longer eligible.
RECURSIVE giveUnits(_, _, _, _)
giveUnits(init, cur, E, n) ==
  IF n = 0 \/ E = {} THEN cur
  ELSE LET t == lowestEligible(init, cur, E)
           next == [cur EXCEPT ![t].currentLoad = @ + 1]
       IN  giveUnits(init, next,
                     IF next[t].currentLoad >= next[t].capacity THEN E \ {t} ELSE E,
                     n - 1)

\* C36: a pass leaves the underloaded agents as the units of the excess
\* leave them when they are given one by one, each to the agent with the
\* lowest ratio at that moment among the underloaded agents not yet at
\* capacity, and of several such agents to the first in the ascending
\* order of the ratios at the start of the pass.
C36_UnitsGoToLowestRatio ==
  [][event'.op = "balanceLoad" =>
       LET expected == giveUnits(agents, agents, underloadedSet(agents),
                                 totalExcess(agents, 1))
       IN  \A i \in underloadedSet(agents) :
             agents'[i].currentLoad = expected[i].currentLoad]_vars

\* A pass has given a unit to the first of two underloaded agents of equal
\* ratio and none to the second (the file still holds the registry from
\* before the pass).
C36_Witness ==
  /\ event = Ev("balanceLoad", "balanced")
  /\ storage # Null
  /\ Len(storage[1]) = Len(agents)
  /\ \E i, j \in Indices(agents) :
       /\ i < j
       /\ storage[1][i].currentLoad < storage[1][i].capacity
       /\ storage[1][j].currentLoad < storage[1][j].capacity
       /\ storage[1][i].currentLoad * storage[1][j].capacity
            = storage[1][j].currentLoad * storage[1][i].capacity
       /\ agents[i].currentLoad = storage[1][i].currentLoad + 1
       /\ agents[j].currentLoad = storage[1][j].currentLoad

\* C37: a pass keeps the sum of the loads; an agent that was overloaded
\* gains nothing and stays at or above its capacity, an agent that was
\* underloaded loses nothing, an agent at capacity keeps its load.
C37_PassConservesLoad ==
  [][event'.op = "balanceLoad" =>
       (/\ Len(agents') = Len(agents)
        /\ reduceSum(agents', "currentLoad") = reduceSum(agents, "currentLoad")
        /\ \A i \in Indices(agents) :
             (/\ agents'[i].capacity = agents[i].capacity
              /\ (agents[i].currentLoad > agents[i].capacity =>
                    (/\ agents'[i].currentLoad <= agents[i].currentLoad
                     /\ agents'[i].currentLoad >= agents[i].capacity))
              /\ (agents[i].currentLoad < agents[i].capacity =>
                    agents'[i].currentLoad >= agents[i].currentLoad)
              /\ (agents[i].currentLoad = agents[i].capacity =>
                    agents'[i].currentLoad = agents[i].currentLoad)))]_vars

\* A pass has moved load past an agent at capacity: one agent was
\* overloaded, one at capacity, one underloaded.
C37_Witness ==
  /\ event = Ev("balanceLoad", "balanced")
  /\ storage # Null
  /\ Len(storage[1]) = Len(agents)
  /\ \E i, j, k \in Indices(agents) :
       /\ storage[1][i].currentLoad > storage[1][i].capacity
       /\ agents[i].currentLoad < storage[1][i].currentLoad
       /\ storage[1][j].currentLoad = storage[1][j].capacity
       /\ agents[j] = storage[1][j]
       /\ storage[1][k].currentLoad < storage[1][k].capacity
       /\ agents[k].currentLoad > storage[1][k].currentLoad

----------------------------------------------------------------------------
(* Properties of the work queue                                            *)

pendingItems(its) == {its[i] : i \in {k \in 1..Len(its) : its[k].status = "pending"}}

itemSet(its) == {its[i] : i \in 1..Len(its)}

\* C31: a call of getNextItem with pending items returns one of them that
\* no pending item precedes in priority (high, medium, low) or, at the same
\* priority, in createdAt; the item is 'in-progress' afterwards and the
\* other items are as before.  Without a pending item the call returns
\* undefined and the items are as before.
C31_NextIsHighestPriorityOldest ==
  [][event'.op = "getNextItem" =>
       IF pendingItems(items) = {}
       THEN (event'.item = Null /\ itemSet(items') = itemSet(items))
       ELSE (/\ event'.item # Null
             /\ \E p \in pendingItems(items) :
                  (/\ event'.item[1] = [p EXCEPT !.status = "in-progress"]
                   /\ \A q \in pendingItems(items) :
                        (/\ priorityValues[q.priority] <= priorityValues[p.priority]
                         /\ (q.priority = p.priority => p.createdAt <= q.createdAt))
                   /\ itemSet(items') = (itemSet(items) \ {p}) \cup {event'.item[1]}))]_vars

\* getNextItem has returned the high item added last, past an older low
\* item that is still pending and an item in progress.
C31_Witness ==
  /\ event.op = "getNextItem"
  /\ event.item # Null
  /\ event.item[1].priority = "high"
  /\ \E q \in pendingItems(items) :
       q.priority = "low" /\ q.createdAt < event.item[1].createdAt
  /\ \E q \in itemSet(items) :
       q.status = "in-progress" /\ q.priority = "medium"

\* C32: an item that addItem has put into the queue is taken out of it by
\* no step but a removeItem for its id, whatever the constructor's
\* loadQueue and the writes do in between.
C32_AddedItemStays ==
  [][\A id \in ItemIdsInUse \cap (1..itemIds) :
       (\/ id \in {items'[i].id : i \in 1..Len(items')}
        \/ (event'.op = "removeItem" /\ event'.id = id))]_vars

\* C40: getNextItem returns no item that an earlier getNextItem has
\* returned, unless updateItemStatus has set it back to 'pending' since.
C40_HandedOutOnce ==
  [][(event'.op = "getNextItem" /\ event'.item # Null)
       => event'.item[1].id \notin handedOut]_vars

----------------------------------------------------------------------------
(* Properties of the agent monitor and of the controller's runs            *)

Registered == {id \in MonitorIds : monitored[id] # Null}

Started == {id \in MonitorIds : runs[id] # Null}

hasOutcome(operations) ==
  \E k \in 1..Len(operations) : operations[k] \in {"COMPLETION", "ERROR"}

countOf(operations, type) ==
  Cardinality({k \in 1..Len(operations) : operations[k] = type})

\* C33: a tick of the heartbeat monitor turns every RUNNING agent whose
\* last heartbeat is more than twice the frequency old into DISCONNECTED
\* and appends one DISCONNECTION to its operations; it leaves every other
\* agent as it is.  A tick comes only while the monitor holds its timer,
\* and dispose leaves it holding none and the agents as they are.
C33_TickDisconnectsSilentRunning ==
  [][(event'.op = "heartbeatMonitor" =>
        (/\ heartbeatInterval # Null
         /\ \A id \in Registered :
              IF /\ monitored[id][1].status = "RUNNING"
                 /\ clock - monitored[id][1].lastHeartbeat > 2 * HeartbeatFrequency
              THEN monitored'[id] =
                     Some([monitored[id][1] EXCEPT
                             !.status = "DISCONNECTED",
                             !.operations = Append(@, "DISCONNECTION")])
              ELSE monitored'[id] = monitored[id]))
     /\ (event'.op = "dispose" =>
           (heartbeatInterval' = Null /\ monitored' = monitored))]_vars

\* A tick has disconnected a silent agent and left an agent with a heartbeat
\* exactly twice the frequency old RUNNING.
C33_Witness ==
  /\ event = Ev("heartbeatMonitor", "ok")
  /\ \E id, other \in Registered :
       /\ monitored[id][1].status = "DISCONNECTED"
       /\ monitored[id][1].operations[Len(monitored[id][1].operations)] = "DISCONNECTION"
       /\ clock - monitored[id][1].lastHeartbeat > 2 * HeartbeatFrequency
       /\ monitored[other][1].status = "RUNNING"
       /\ clock - monitored[other][1].lastHeartbeat = 2 * HeartbeatFrequency

\* C34: a tick of the heartbeat monitor leaves every agent with status
\* COMPLETED or FAILED as it is, and once a completion or an error of an
\* agent started by the controller is in its operations, no step appends
\* a heartbeat to them or makes the agent DISCONNECTED.
C34_CompletedNeverDisconnected ==
  [][(event'.op = "heartbeatMonitor" =>
        \A id \in Registered :
          monitored[id][1].status \in {"COMPLETED", "FAILED"}
            => monitored'[id] = monitored[id])
     /\ (\A id \in Started :
           hasOutcome(monitored[id][1].operations) =>
             (/\ monitored'[id][1].status # "DISCONNECTED"
              /\ countOf(monitored'[id][1].operations, "HEARTBEAT")
                   = countOf(monitored[id][1].operations, "HEARTBEAT")))]_vars

\* A tick has passed over an agent that timed out and has had no heartbeat
\* for more than twice the frequency.
C34_Witness ==
  /\ event = Ev("heartbeatMonitor", "ok")
  /\ \E id \in Started :
       /\ monitored[id][1].status = "FAILED"
       /\ runs[id][1].operation = "pending"
       /\ clock - monitored[id][1].lastHeartbeat > 2 * HeartbeatFrequency

\* C39: once the status of an agent started by the controller is COMPLETED
\* or FAILED, no step changes its status or appends to its operations.
C39_FirstOutcomeFinal ==
  [][\A id \in Started :
       monitored[id][1].status \in {"COMPLETED", "FAILED"}
         => monitored'[id] = monitored[id]]_vars

\* C38: every agent started by startAgent eventually has status COMPLETED
\* or FAILED.
C38_StartedAgentEnds ==
  \A id \in MonitorIds :
    [](runs[id] # Null =>
         <>(monitored[id] # Null /\ monitored[id][1].status \in {"COMPLETED", "FAILED"}))

\* An agent that the monitor had disconnected during its run has completed.
C38_Witness ==
  \E id \in Started :
    /\ runs[id][1].operation = "settled"
    /\ monitored[id][1].status = "COMPLETED"
    /\ countOf(monitored[id][1].operations, "DISCONNECTION") > 0

----------------------------------------------------------------------------
(* Properties of the metrics                                               *)

\* The metrics named 'operation_success' with the given value within the
\* time range (all of them without a range).
operationsWith(value, timeRange) ==
  {k \in 1..Len(metrics) :
     /\ metrics[k].name = "operation_success"
     /\ metrics[k].value = value
     /\ (timeRange # Null =>
           (/\ timeRange[1].start <= metrics[k].timestamp
            /\ metrics[k].timestamp <= timeRange[1].end))}

\* C35: getSuccessRate returns 100 times the number of successes (value 1)
\* over the number of successes and failures (value 0) among the
\* 'operation_success' metrics of the time range, and 100 when there is
\* neither.
C35_SuccessRate ==
  event.op = "getSuccessRate" =>
    LET successes == Cardinality(operationsWith(1, event.timeRange))
        failures == Cardinality(operationsWith(0, event.timeRange))
    IN  IF successes + failures = 0
        THEN event.rate[1] = 100 * event.rate[2]
        ELSE event.rate[1] * (successes + failures) = 100 * successes * event.rate[2]

====
